---------------------------- MODULE Spec2Model ----------------------------
(***************************************************************************)
(* docsalud-mx: the document-processing core.                              *)
(*                                                                         *)
(*   Spec        NLPPipeline.process, one caller                           *)
(*   SpecShared  NLPPipeline.process, two callers sharing the pipeline     *)
(*   SpecClean   TextCleaner.clean applied once and again to a text        *)
(*   SpecNer     MedicalNERExtractor.extract_entities                      *)
(*   SpecLink    EntityLinker.link_entities over drawn catalogs            *)
(*   SpecLinkOne EntityLinker.link_entities on a single entity             *)
(*   SpecImage   ImageHandler loading and OCRExtractor.extract_from_image  *)
(*   SpecStruct  MedicalNERExtractor.extract_structured_data               *)
(*   SpecOcr     OCRExtractor.extract_from_pdf and extract_from_numpy      *)
(*   SpecClf     DocumentClassifier.classify and the lazy model property   *)
(*   SpecPre     ImagePreprocessor resize_if_needed, deskew, _order_points *)
(*   SpecReg     ModelRegistry.register, get_info and load_model           *)
(*   SpecSeg     TextCleaner.segment_document_sections, line by line       *)
(*   SpecUpload  DocumentService.upload_and_process                        *)
(*   SpecRate    RateLimitMiddleware.dispatch on a tick clock              *)
(*                                                                         *)
(* A text is a sequence of characters (one-character strings).  A          *)
(* specification leaves the variables of the other parts at rest.          *)
(***************************************************************************)
EXTENDS Integers, Sequences, FiniteSets, TLC

VARIABLES
    t_now,               \* time.monotonic(), in ticks
    t_requests,          \* RateLimitMiddleware._requests: client -> times recorded
    t_log,               \* the requests dispatched so far and what became of each
    u_pc,                \* upload_and_process: where the call is
    u_session,           \* the AsyncSession: "active", or "inactive" after a failed flush
    u_ext,               \* the suffix of the uploaded file
    u_text_blank,        \* whether OCR gave no text
    u_entities,          \* how many entities the NER step gave
    u_document,          \* the Document row of the session: type and processing_status
    u_history,           \* the values processing_status has taken, in order
    u_stored,            \* the ExtractedEntity rows added
    g_pc,                \* segment_document_sections: "loop", "flush", "done"
    g_lines,             \* text.split("\n"), each line by what it holds
    g_pos,               \* the line the loop is at
    g_current_section,   \* current_section
    g_current_content,   \* current_content, as the positions of its lines
    g_sections,          \* sections
    r_registry,          \* ModelRegistry._registry: its keys (name, version)
    r_loaded,            \* ModelRegistry._loaded_models: its keys
    r_steps,             \* register calls made so far
    r_out,               \* the last get_info / load_model call and its outcome
    q_op,                \* the ImagePreprocessor method called last
    q_image,             \* its image argument, as (width, height)
    q_lines,             \* what HoughLinesP found in the image
    q_max_dim,           \* the max_dim argument of resize_if_needed
    q_points,            \* the points argument of _order_points
    q_out,               \* what the call returned
    k_model_path,        \* DocumentClassifier.model_path
    k_path_exists,       \* Path(model_path).exists()
    k_model,             \* DocumentClassifier._model
    k_tokenizer,         \* DocumentClassifier._tokenizer
    k_is_fine_tuned,     \* DocumentClassifier._is_fine_tuned
    k_calls,             \* classify calls made so far
    k_text,              \* the text of the last classify call
    k_result,            \* what the last classify call returned
    o_pc,        \* OCR run: "start", "native", "rasterize", "ocr", "returned", "raised"
    o_entry,     \* the entry point called: "extract_from_pdf" or "extract_from_numpy"
    o_file,      \* the PDF file: whether it exists, its suffix, its size in bytes
    o_doc,       \* the pages of the PDF (for extract_from_numpy: the one image)
    o_steps,     \* the collaborators invoked so far, in order
    o_log,       \* the warnings given to the logger
    o_frame,     \* the locals of extract_from_pdf
    o_error,     \* the exception raised, or None
    o_result,    \* the OCRResult returned, or None
    s_pc,        \* extract_structured_data run: "start", "entities", "returned"
    s_doc_type,  \* the doc_type argument, once the extractor was chosen by it
    s_entities,  \* the list extract_entities returned
    s_structured, \* the dict the chosen extractor returned, or None
    i_pc,        \* image run: "start", "decode", "preprocess", "ocr", "returned", "raised"
    i_entry,     \* the entry point called
    i_exists,    \* path.exists()
    i_suffix_ok, \* path.suffix.lower() in SUPPORTED_IMAGE_EXTENSIONS
    i_size,      \* path.stat().st_size, or len(data): the payload in bytes
    i_decodable, \* whether OpenCV can decode the payload
    i_steps,     \* the collaborators invoked so far, in order
    i_error,     \* the exception raised, or None
    i_result,    \* what the entry point returned, or None
    p_threads,   \* the threads on which callers run process()
    p_workload,  \* what callers submit: "any" request, or "untyped words"
    p_ner_model_path,    \* MedicalNERExtractor.model_path
    p_ner_nlp,           \* MedicalNERExtractor._nlp
    p_ner_is_custom,     \* MedicalNERExtractor._is_custom
    p_clf_model,         \* DocumentClassifier._model
    p_clf_is_fine_tuned, \* DocumentClassifier._is_fine_tuned
    p_cie10,     \* EntityLinker._cie10 of the pipeline's linker
    p_meds,      \* EntityLinker._medications
    p_labs,      \* EntityLinker._lab_ranges
    p_pc,        \* per thread, where its process() call stands
    p_frame,     \* per thread, the arguments and locals of process()
    p_trace,     \* per thread, the component methods process() has invoked
    p_result,    \* per thread, the NLPResult returned, or None
    l_pc,        \* link_entities run: "start", "returned", "raised"
    l_cie10,     \* EntityLinker._cie10: the records of cie10_codes.json
    l_meds,      \* EntityLinker._medications
    l_labs,      \* EntityLinker._lab_ranges
    l_entities,  \* the entities handed to link_entities (it sets normalized_value)
    l_linked,    \* the list link_entities returns
    n_pc,        \* extract_entities run: "start", "tagged", "matched", "merged"
    n_len,       \* len(text) of the text given to extract_entities
    n_custom,    \* MedicalNERExtractor._is_custom
    n_spacy,     \* the entities built from doc.ents
    n_regex,     \* the entities returned by _extract_with_regex
    n_merged,    \* the list extract_entities returns
    c_pc,        \* TextCleaner run: "start", "once" (clean returned), "twice"
    c_expand,    \* TextCleaner.expand_abbreviations
    c_text,      \* the raw text handed to clean()
    c_once,      \* CleanedText of clean(c_text)
    c_twice      \* CleanedText of clean(c_once.cleaned)

vars_clean == <<c_pc, c_expand, c_text, c_once, c_twice>>
vars_ner == <<n_pc, n_len, n_custom, n_spacy, n_regex, n_merged>>
vars_link == <<l_pc, l_cie10, l_meds, l_labs, l_entities, l_linked>>
vars_image == <<i_pc, i_entry, i_exists, i_suffix_ok, i_size, i_decodable, i_steps,
               i_error, i_result>>
\* the state the threads share: the fields of the pipeline's components
vars_shared == <<p_ner_model_path, p_ner_nlp, p_ner_is_custom, p_clf_model,
                p_clf_is_fine_tuned, p_cie10, p_meds, p_labs>>
vars_pipe == <<p_threads, p_workload, vars_shared, p_pc, p_frame, p_trace, p_result>>
vars_struct == <<s_pc, s_doc_type, s_entities, s_structured>>
vars_ocr == <<o_pc, o_entry, o_file, o_doc, o_steps, o_log, o_frame, o_error, o_result>>
vars_clf == <<k_model_path, k_path_exists, k_model, k_tokenizer, k_is_fine_tuned, k_calls, k_text, k_result>>
vars_pre == <<q_op, q_image, q_lines, q_max_dim, q_points, q_out>>
vars_reg == <<r_registry, r_loaded, r_steps, r_out>>
vars_seg == <<g_pc, g_lines, g_pos, g_current_section, g_current_content, g_sections>>
vars_upload == <<u_pc, u_session, u_ext, u_text_blank, u_entities, u_document, u_history, u_stored>>
vars_rate == <<t_now, t_requests, t_log>>
\* what an action of one part leaves alone: the variables of the others
FrameClean == UNCHANGED <<vars_ner, vars_link, vars_pipe, vars_image, vars_struct, vars_ocr, vars_clf, vars_pre, vars_reg, vars_seg, vars_upload, vars_rate>>
FrameNer == UNCHANGED <<vars_clean, vars_link, vars_pipe, vars_image, vars_struct, vars_ocr, vars_clf, vars_pre, vars_reg, vars_seg, vars_upload, vars_rate>>
FrameLink == UNCHANGED <<vars_clean, vars_ner, vars_pipe, vars_image, vars_struct, vars_ocr, vars_clf, vars_pre, vars_reg, vars_seg, vars_upload, vars_rate>>
FramePipe == UNCHANGED <<vars_clean, vars_ner, vars_link, vars_image, vars_struct, vars_ocr, vars_clf, vars_pre, vars_reg, vars_seg, vars_upload, vars_rate>>
FrameImage == UNCHANGED <<vars_clean, vars_ner, vars_link, vars_pipe, vars_struct, vars_ocr, vars_clf, vars_pre, vars_reg, vars_seg, vars_upload, vars_rate>>

FrameStruct == UNCHANGED <<vars_clean, vars_ner, vars_link, vars_pipe, vars_image, vars_ocr, vars_clf, vars_pre, vars_reg, vars_seg, vars_upload, vars_rate>>

FrameOcr == UNCHANGED <<vars_clean, vars_ner, vars_link, vars_pipe, vars_image, vars_struct, vars_clf, vars_pre, vars_reg, vars_seg, vars_upload, vars_rate>>

FrameClf == UNCHANGED <<vars_clean, vars_ner, vars_link, vars_pipe, vars_image, vars_struct, vars_ocr, vars_pre, vars_reg, vars_seg, vars_upload, vars_rate>>

FramePre == UNCHANGED <<vars_clean, vars_ner, vars_link, vars_pipe, vars_image, vars_struct, vars_ocr, vars_clf, vars_reg, vars_seg, vars_upload, vars_rate>>

FrameReg == UNCHANGED <<vars_clean, vars_ner, vars_link, vars_pipe, vars_image, vars_struct, vars_ocr, vars_clf, vars_pre, vars_seg, vars_upload, vars_rate>>

FrameSeg == UNCHANGED <<vars_clean, vars_ner, vars_link, vars_pipe, vars_image, vars_struct, vars_ocr, vars_clf, vars_pre, vars_reg, vars_upload, vars_rate>>

FrameUpload == UNCHANGED <<vars_clean, vars_ner, vars_link, vars_pipe, vars_image, vars_struct, vars_ocr, vars_clf, vars_pre, vars_reg, vars_seg, vars_rate>>

FrameRate == UNCHANGED <<vars_clean, vars_ner, vars_link, vars_pipe, vars_image, vars_struct, vars_ocr, vars_clf, vars_pre, vars_reg, vars_seg, vars_upload>>

vars == <<vars_rate, vars_upload, vars_seg, vars_reg, vars_pre, vars_clf, vars_ocr, vars_struct, vars_image, vars_pipe,
          l_pc, l_cie10, l_meds, l_labs, l_entities, l_linked,
          n_pc, n_len, n_custom, n_spacy, n_regex, n_merged,
          c_pc, c_expand, c_text, c_once, c_twice>>

None == "None"
\* None where a catalog record, and where a string, is expected
NoRef == [none |-> None]
NoText == <<None>>

(***************************************************************************)
(* Characters.  NBSP is U+00A0.                                            *)
(***************************************************************************)
SP == " "
NL == "\n"
TAB == "\t"
NBSP == "nbsp"

\* The characters of the raw texts the model feeds to clean().
Alphabet == {"a", "0", "|", SP, NL, NBSP}

\* str.strip() / str.isspace(): the whitespace among the characters used.
IsSpace(c) == c \in {SP, NL, TAB, NBSP}

\* [a-zA-Z] among the characters used.
IsLetter(c) == c \in {"a", "b", "e", "l", "o", "E"}

MaxTextLen == 6

RECURSIVE SeqsUpTo(_, _)
SeqsUpTo(S, n) ==
    IF n = 0 THEN {<<>>}
    ELSE LET shorter == SeqsUpTo(S, n - 1)
         IN  shorter \cup {Append(s, c) : s \in {x \in shorter : Len(x) = n - 1}, c \in S}

\* the raw texts of at most n characters
Texts(n) == SeqsUpTo(Alphabet, n)

(***************************************************************************)
(* TextCleaner                                                             *)
(***************************************************************************)
RECURSIVE MapChars(_, _)
\* apply a per-character replacement (a sequence per character)
MapChars(f(_), s) == IF s = <<>> THEN <<>> ELSE f(Head(s)) \o MapChars(f, Tail(s))

RECURSIVE DropWhile(_, _)
DropWhile(p(_), s) == IF s # <<>> /\ p(Head(s)) THEN DropWhile(p, Tail(s)) ELSE s

RECURSIVE LStrip(_)
LStrip(s) == IF s # <<>> /\ IsSpace(Head(s)) THEN LStrip(Tail(s)) ELSE s

RECURSIVE RStrip(_)
RStrip(s) ==
    IF s # <<>> /\ IsSpace(s[Len(s)]) THEN RStrip(SubSeq(s, 1, Len(s) - 1)) ELSE s

\* str.strip()
Strip(s) == RStrip(LStrip(s))

\* NFKC and the replacement table: of the characters used only U+00A0 changes
UnicodeRepl(c) == IF c = NBSP THEN <<SP>> ELSE <<c>>

\* _normalize_unicode
NormalizeUnicode(s) == MapChars(UnicodeRepl, s)

PipeRepl(c) == IF c = "|" THEN <<"l">> ELSE <<c>>

\* re.sub(r"(?<=[a-zA-Z])0(?=[a-zA-Z])", "o", s): the lookarounds read the
\* string the substitution started from
ZeroBetweenLetters(s) ==
    [i \in 1..Len(s) |->
        IF /\ s[i] = "0"
           /\ i > 1 /\ IsLetter(s[i - 1])
           /\ i < Len(s) /\ IsLetter(s[i + 1])
        THEN "o" ELSE s[i]]

\* fix_ocr_artifacts: the patterns of OCR_ARTIFACT_MAP in table order.  Over
\* the characters used only the first two can match; every other pattern
\* needs a character ("1", "r", "n", ".", ",", ...) outside them.
FixOcrArtifacts(s) == ZeroBetweenLetters(MapChars(PipeRepl, s))

IsBlank(c) == c \in {SP, TAB}
IsSP(c) == c = SP
IsNL(c) == c = NL

RECURSIVE CollapseBlanks(_)
\* re.sub(r"[ \t]+", " ", s)
CollapseBlanks(s) ==
    IF s = <<>> THEN <<>>
    ELSE IF IsBlank(Head(s)) THEN <<SP>> \o CollapseBlanks(DropWhile(IsBlank, s))
    ELSE <<Head(s)>> \o CollapseBlanks(Tail(s))

RECURSIVE CollapseNewlines(_)
\* re.sub(r"\n{3,}", "\n\n", s)
CollapseNewlines(s) ==
    IF s = <<>> THEN <<>>
    ELSE IF Head(s) = NL
         THEN LET rest == DropWhile(IsNL, s)
                  n == Len(s) - Len(rest)
              IN  (IF n >= 3 THEN <<NL, NL>> ELSE [i \in 1..n |-> NL])
                  \o CollapseNewlines(rest)
    ELSE <<Head(s)>> \o CollapseNewlines(Tail(s))

RECURSIVE DropSpacesBeforeNewline(_)
\* re.sub(r" +\n", "\n", s)
DropSpacesBeforeNewline(s) ==
    IF s = <<>> THEN <<>>
    ELSE IF Head(s) = SP
         THEN LET rest == DropWhile(IsSP, s)
                  n == Len(s) - Len(rest)
              IN  IF rest # <<>> /\ Head(rest) = NL
                  THEN <<NL>> \o DropSpacesBeforeNewline(Tail(rest))
                  ELSE [i \in 1..n |-> SP] \o DropSpacesBeforeNewline(rest)
    ELSE <<Head(s)>> \o DropSpacesBeforeNewline(Tail(s))

RECURSIVE DropSpacesAfterNewline(_)
\* re.sub(r"\n +", "\n", s)
DropSpacesAfterNewline(s) ==
    IF s = <<>> THEN <<>>
    ELSE IF Head(s) = NL
         THEN <<NL>> \o DropSpacesAfterNewline(DropWhile(IsSP, Tail(s)))
    ELSE <<Head(s)>> \o DropSpacesAfterNewline(Tail(s))

\* _normalize_whitespace
NormalizeWhitespace(s) ==
    Strip(DropSpacesAfterNewline(DropSpacesBeforeNewline(
        CollapseNewlines(CollapseBlanks(s)))))

\* normalize_medical_abbreviations: every pattern of MEDICAL_ABBREVIATIONS
\* needs a letter outside the characters used, so none matches
NormalizeMedicalAbbreviations(s) == s

RECURSIVE SplitWords(_)
\* _tokenize_words: over letters, digits and whitespace word_tokenize and
\* its fallback str.split() agree
SplitWords(s) ==
    LET t == DropWhile(IsSpace, s)
        NotSpace(c) == ~IsSpace(c)
        rest == DropWhile(NotSpace, t)
    IN  IF t = <<>> THEN <<>>
        ELSE <<SubSeq(t, 1, Len(t) - Len(rest))>> \o SplitWords(rest)

\* _tokenize_sentences: a text without sentence punctuation is one sentence
TokenizeSentences(s) == IF s = <<>> THEN <<>> ELSE <<s>>

EmptyCleanedText(t) ==
    [original |-> t, cleaned |-> <<>>, sentences |-> <<>>, tokens |-> <<>>,
     corrections_applied |-> <<>>]

\* TextCleaner.clean
Clean(t, expand) ==
    IF t = <<>> \/ Strip(t) = <<>> THEN EmptyCleanedText(t)
    ELSE LET u == NormalizeUnicode(t)
             o == FixOcrArtifacts(u)
             w == NormalizeWhitespace(o)
             a == IF expand THEN NormalizeMedicalAbbreviations(w) ELSE w
         IN  [original |-> t,
              cleaned |-> a,
              sentences |-> TokenizeSentences(a),
              tokens |-> SplitWords(a),
              corrections_applied |->
                  <<"unicode_normalized">>
                  \o (IF o # u THEN <<"ocr_artifacts_fixed">> ELSE <<>>)
                  \o <<"whitespace_normalized">>
                  \o (IF a # w THEN <<"abbreviations_expanded">> ELSE <<>>)]

InitClean ==
    /\ c_pc = "start"
    /\ c_expand \in BOOLEAN
    /\ c_text \in Texts(MaxTextLen)
    /\ c_once = None
    /\ c_twice = None

\* cleaner.clean(text)
CleanOnce ==
    /\ c_pc = "start"
    /\ c_once' = Clean(c_text, c_expand)
    /\ c_pc' = "once"
    /\ UNCHANGED <<c_expand, c_text, c_twice>>
    /\ FrameClean

\* cleaner.clean(result.cleaned)
CleanAgain ==
    /\ c_pc = "once"
    /\ c_twice' = Clean(c_once.cleaned, c_expand)
    /\ c_pc' = "twice"
    /\ UNCHANGED <<c_expand, c_text, c_once>>
    /\ FrameClean

RestClean ==
    /\ c_pc = "rest" /\ c_expand = FALSE /\ c_text = <<>>
    /\ c_once = None /\ c_twice = None

NextClean == CleanOnce \/ CleanAgain

\* C4: clean() is idempotent: cleaning the cleaned text of any input gives
\* the same cleaned text again.
C4_CleanIdempotent ==
    c_pc = "twice" => c_twice.cleaned = c_once.cleaned

(***************************************************************************)
(* MedicalNERExtractor.extract_entities                                    *)
(*                                                                         *)
(* Confidences are in hundredths.  An entity's value is the span of the    *)
(* text it was read from: <<i, j>> stands for text[i:j].                   *)
(***************************************************************************)
MaxNerLen == 4
MaxSpacy == 1
MaxRegex == 2

MEDICAL_NER_LABELS ==
    {"MEDICAMENTO", "DOSIS", "PRESENTACION", "FRECUENCIA_DOSIS",
     "FRECUENCIA_TIEMPO", "DURACION", "DIAGNOSTICO", "CODIGO_CIE10",
     "SIGNO_VITAL", "VALOR_MEDICION", "RANGO_REFERENCIA", "NOMBRE_PACIENTE",
     "NOMBRE_MEDICO", "FECHA", "INSTITUCION"}

\* labels doc.ents may carry: medical ones and one of the base model's own
SpacyLabels == {"DIAGNOSTICO", "PER"}

\* _extract_with_regex: the pattern groups in the order they are run, each
\* with the type and the confidence it gives its matches and the length of
\* the shortest text its pattern matches ("A12", "5g", "5%", "(1-2)",
\* "1/02/2024", "cada 1 hr", "por 1 dia", "crema")
RegexGroups ==
    <<[entity_type |-> "CODIGO_CIE10", confidence |-> 90, shortest |-> 3],
      [entity_type |-> "DOSIS", confidence |-> 85, shortest |-> 2],
      [entity_type |-> "VALOR_MEDICION", confidence |-> 90, shortest |-> 2],
      [entity_type |-> "RANGO_REFERENCIA", confidence |-> 85, shortest |-> 5],
      [entity_type |-> "FECHA", confidence |-> 90, shortest |-> 9],
      [entity_type |-> "FRECUENCIA_TIEMPO", confidence |-> 85, shortest |-> 9],
      [entity_type |-> "DURACION", confidence |-> 85, shortest |-> 9],
      [entity_type |-> "PRESENTACION", confidence |-> 80, shortest |-> 5]>>

\* the non-empty spans [i, j) of a text of length n
Spans(n) == {sp \in (0..n) \X (0..n) : sp[1] < sp[2]}

MedicalEntity(type, span, conf) ==
    [entity_type |-> type, value |-> span, confidence |-> conf,
     start_char |-> span[1], end_char |-> span[2]]

\* doc.ents of a text of length n: spans in text order that do not overlap
DocEnts(n) ==
    {d \in SeqsUpTo(SpacyLabels \X Spans(n), MaxSpacy) :
        \A i \in 1..(Len(d) - 1) : d[i][2][2] <= d[i + 1][2][1]}

RECURSIVE SelectSeq2(_, _)
SelectSeq2(keep(_), s) ==
    IF s = <<>> THEN <<>>
    ELSE (IF keep(Head(s)) THEN <<Head(s)>> ELSE <<>>) \o SelectSeq2(keep, Tail(s))

\* extract_entities, the loop over doc.ents
SpacyEntities(ents, custom) ==
    LET Kept(x) == x[1] \in MEDICAL_NER_LABELS \/ custom
        kept == SelectSeq2(Kept, ents)
    IN  [i \in 1..Len(kept) |->
            MedicalEntity(kept[i][1], kept[i][2], IF custom THEN 100 ELSE 80)]

\* what the re.finditer loops can yield on a text of length n: group after
\* group, the matches of one group in text order and not overlapping
RegexMatches(n) ==
    LET One == {x \in (DOMAIN RegexGroups) \X Spans(n) :
                    x[2][2] - x[2][1] >= RegexGroups[x[1]].shortest}
    IN  {m \in SeqsUpTo(One, MaxRegex) :
            \A i \in 1..(Len(m) - 1) :
                \/ m[i][1] < m[i + 1][1]
                \/ m[i][1] = m[i + 1][1] /\ m[i][2][2] <= m[i + 1][2][1]}

\* RegexEntities with the value read from a capture group that leaves out the
\* last character of the match
RegexEntitiesFirstGroup(m) ==
    [i \in 1..Len(m) |->
        [entity_type |-> RegexGroups[m[i][1]].entity_type,
         value |-> <<m[i][2][1], m[i][2][2] - 1>>,
         confidence |-> RegexGroups[m[i][1]].confidence,
         start_char |-> m[i][2][1], end_char |-> m[i][2][2]]]

\* _extract_with_regex: the value is group(0), or a group(1) that spans the
\* whole match (CODIGO_CIE10, FECHA: only \b around the group)
RegexEntities(m) ==
    [i \in 1..Len(m) |->
        MedicalEntity(RegexGroups[m[i][1]].entity_type, m[i][2],
                      RegexGroups[m[i][1]].confidence)]

Abs(x) == IF x < 0 THEN -x ELSE x

MERGE_DISTANCE == 3

\* the duplicate test of _merge_entities
IsDuplicate(r, e) ==
    /\ Abs(r.start_char - e.start_char) < MERGE_DISTANCE
    /\ Abs(r.end_char - e.end_char) < MERGE_DISTANCE

\* MergeOne with the duplicate taking the regex entity's end offset as well
MergeOneTakingEnd(merged, r) ==
    LET dups == {i \in 1..Len(merged) : IsDuplicate(r, merged[i])}
    IN  IF dups = {} THEN Append(merged, r)
        ELSE LET i == CHOOSE k \in dups : \A j \in dups : k <= j
             IN  IF r.confidence > merged[i].confidence
                 THEN [merged EXCEPT ![i].entity_type = r.entity_type,
                                     ![i].confidence = r.confidence,
                                     ![i].end_char = r.end_char]
                 ELSE merged

\* _merge_entities, the body of the loop for one regex entity: the first
\* duplicate in merged takes the regex entity's type and confidence when
\* those are higher; with no duplicate the regex entity is appended
MergeOne(merged, r) ==
    LET dups == {i \in 1..Len(merged) : IsDuplicate(r, merged[i])}
    IN  IF dups = {} THEN Append(merged, r)
        ELSE LET i == CHOOSE k \in dups : \A j \in dups : k <= j
             IN  IF r.confidence > merged[i].confidence
                 THEN [merged EXCEPT ![i].entity_type = r.entity_type,
                                     ![i].confidence = r.confidence]
                 ELSE merged

RECURSIVE InsertByStart(_, _)
InsertByStart(sorted, e) ==
    IF sorted = <<>> THEN <<e>>
    ELSE IF Head(sorted).start_char <= e.start_char
         THEN <<Head(sorted)>> \o InsertByStart(Tail(sorted), e)
         ELSE <<e>> \o sorted

RECURSIVE SortByStart(_)
\* merged.sort(key=lambda e: e.start_char): a stable sort
SortByStart(s) ==
    IF s = <<>> THEN <<>>
    ELSE InsertByStart(SortByStart(SubSeq(s, 1, Len(s) - 1)), s[Len(s)])

RECURSIVE MergeAll(_, _)
MergeAll(merged, regex) ==
    IF regex = <<>> THEN merged
    ELSE MergeAll(MergeOne(merged, Head(regex)), Tail(regex))

\* _merge_entities
MergeEntities(spacy, regex) == SortByStart(MergeAll(spacy, regex))

InitNer ==
    /\ n_pc = "start"
    /\ n_len \in 1..MaxNerLen
    /\ n_custom \in BOOLEAN
    /\ n_spacy = <<>>
    /\ n_regex = <<>>
    /\ n_merged = <<>>

RestNer ==
    /\ n_pc = "rest" /\ n_len = 0 /\ n_custom = FALSE
    /\ n_spacy = <<>> /\ n_regex = <<>> /\ n_merged = <<>>

\* doc = self.nlp(text) and the loop over doc.ents
RunTagger ==
    /\ n_pc = "start"
    /\ \E ents \in DocEnts(n_len) : n_spacy' = SpacyEntities(ents, n_custom)
    /\ n_pc' = "tagged"
    /\ UNCHANGED <<n_len, n_custom, n_regex, n_merged>>
    /\ FrameNer

\* regex_entities = self._extract_with_regex(text)
RunRegex ==
    /\ n_pc = "tagged"
    /\ \E m \in RegexMatches(n_len) : n_regex' = RegexEntities(m)
    /\ n_pc' = "matched"
    /\ UNCHANGED <<n_len, n_custom, n_spacy, n_merged>>
    /\ FrameNer

\* entities = self._merge_entities(entities, regex_entities); return
RunMerge ==
    /\ n_pc = "matched"
    /\ n_merged' = MergeEntities(n_spacy, n_regex)
    /\ n_pc' = "merged"
    /\ UNCHANGED <<n_len, n_custom, n_spacy, n_regex>>
    /\ FrameNer

NextNer == RunTagger \/ RunRegex \/ RunMerge

(***************************************************************************)
(* EntityLinker                                                            *)
(*                                                                         *)
(* A catalog record is a function from the field names it has to strings;  *)
(* a dict is a sequence of <<key, value>> in insertion order.              *)
(***************************************************************************)
MaxCatalog == 2
MaxEntities == 2

\* str.lower()
LowerChar(c) == IF c = "E" THEN "e" ELSE c
Lower(s) == [i \in 1..Len(s) |-> LowerChar(s[i])]
IsUpper(c) == c = "E"

\* needle in hay
Contains(hay, needle) ==
    \E i \in 0..(Len(hay) - Len(needle)) : SubSeq(hay, i + 1, i + Len(needle)) = needle

\* dict.get(key, default)
Get(item, key, default) == IF key \in DOMAIN item THEN item[key] ELSE default

\* d[key] = value
DictSet(d, key, value) ==
    IF \E i \in 1..Len(d) : d[i][1] = key
    THEN [i \in 1..Len(d) |-> IF d[i][1] = key THEN <<key, value>> ELSE d[i]]
    ELSE Append(d, <<key, value>>)

HasKey(d, key) == \E i \in 1..Len(d) : d[i][1] = key
Lookup(d, key) == d[CHOOSE i \in 1..Len(d) : d[i][1] = key][2]

RECURSIVE Cie10Index(_)
\* __init__: _cie10_index, keyed by code and by lowercased name
Cie10Index(items) ==
    IF items = <<>> THEN <<>>
    ELSE LET item == items[Len(items)]
             d == Cie10Index(SubSeq(items, 1, Len(items) - 1))
         IN  DictSet(DictSet(d, Get(item, "code", <<>>), item),
                     Lower(Get(item, "name", <<>>)), item)

RECURSIVE NameIndex(_, _)
\* __init__: _med_index (by "generic_name") and _lab_index (by "name")
NameIndex(items, field) ==
    IF items = <<>> THEN <<>>
    ELSE LET item == items[Len(items)]
         IN  DictSet(NameIndex(SubSeq(items, 1, Len(items) - 1), field),
                     Lower(Get(item, field, <<>>)), item)

Found(ref) == [raised |-> FALSE, ref |-> ref]
IndexError == [raised |-> TRUE, ref |-> NoRef]

RECURSIVE ScanNames(_, _)
\* the loops of _link_medication and _link_lab_test
ScanNames(d, key) ==
    IF d = <<>> THEN Found(NoRef)
    ELSE IF Contains(Head(d)[1], key) \/ Contains(key, Head(d)[1]) THEN Found(Head(d)[2])
    ELSE ScanNames(Tail(d), key)

\* _link_medication, _link_lab_test
LinkByName(d, value) ==
    LET key == Lower(Strip(value))
    IN  IF HasKey(d, key) THEN Found(Lookup(d, key)) ELSE ScanNames(d, key)

RECURSIVE ScanDiagnoses(_, _)
\* the loop of _link_diagnosis: name[0] of an empty key raises IndexError
ScanDiagnoses(d, key) ==
    IF d = <<>> THEN Found(NoRef)
    ELSE LET name == Head(d)[1]
         IN  IF name = <<>> THEN IndexError
             ELSE IF ~IsLetter(name[1]) \/ IsUpper(name[1]) THEN ScanDiagnoses(Tail(d), key)
             ELSE IF Contains(name, key) \/ Contains(key, name) THEN Found(Head(d)[2])
             ELSE ScanDiagnoses(Tail(d), key)

\* _link_diagnosis
LinkDiagnosis(d, value) ==
    LET key == Lower(Strip(value))
    IN  IF HasKey(d, key) THEN Found(Lookup(d, key)) ELSE ScanDiagnoses(d, key)

\* _link_cie10_code looking a code up the way a name is
LinkCie10CodeByName(d, value) == LinkByName(d, value)

\* _link_cie10_code
LinkCie10Code(d, value) == Found(IF HasKey(d, value) THEN Lookup(d, value) ELSE NoRef)

\* bool(ref) of a record or None
Truthy(ref) == ref # NoRef /\ DOMAIN ref # {}

\* __init__: the three indexes
Indexes(cie10, meds, labs) ==
    [cie10 |-> Cie10Index(cie10), med |-> NameIndex(meds, "generic_name"),
     lab |-> NameIndex(labs, "name")]

\* link_entities, the body of the loop for one entity, over the indexes ix:
\* the link_data it appends and the entity as it leaves it
LinkOne(ix, entity) ==
    LET t == entity.entity_type
        found == IF t = "MEDICAMENTO" THEN LinkByName(ix.med, entity.value)
                 ELSE IF t = "DIAGNOSTICO" THEN LinkDiagnosis(ix.cie10, entity.value)
                 ELSE IF t = "CODIGO_CIE10" THEN LinkCie10Code(ix.cie10, entity.value)
                 ELSE IF t = "SIGNO_VITAL" THEN LinkByName(ix.lab, entity.value)
                 ELSE Found(NoRef)
        hit == ~found.raised /\ Truthy(found.ref)
        field == IF t = "MEDICAMENTO" THEN "generic_name"
                 ELSE IF t = "DIAGNOSTICO" THEN "code"
                 ELSE IF t = "CODIGO_CIE10" THEN "name"
                 ELSE None
    IN  [raised |-> found.raised,
         link_data |-> [entity_type |-> t, value |-> entity.value,
                        start_char |-> entity.start_char, end_char |-> entity.end_char,
                        confidence |-> entity.confidence,
                        reference |-> IF hit THEN found.ref ELSE NoRef],
         entity |-> IF hit /\ field # None
                    THEN [entity EXCEPT !.normalized_value = Get(found.ref, field, NoText)]
                    ELSE entity]

RECURSIVE LinkAll(_, _)
\* link_entities, the loop
LinkAll(ix, entities) ==
    IF entities = <<>> THEN [raised |-> FALSE, linked |-> <<>>, entities |-> <<>>]
    ELSE LET one == LinkOne(ix, Head(entities))
             rest == LinkAll(ix, Tail(entities))
         IN  [raised |-> one.raised \/ rest.raised,
              linked |-> <<one.link_data>> \o rest.linked,
              entities |-> <<one.entity>> \o rest.entities]

\* link_entities of a linker built over the three catalogs: whether it
\* raised, the list it returns, the entities as it leaves them
LinkEntities(cie10, meds, labs, entities) ==
    LinkAll(Indexes(cie10, meds, labs), entities)

\* catalog records the model draws: complete ones and ones lacking a field
Cie10Pool ==
    {[code |-> <<"E", "1">>, name |-> <<"a", "b">>],
     [code |-> <<"E", "1">>],
     [name |-> <<"a", "b">>]}
MedPool == {[generic_name |-> <<"a", "b">>], [description |-> <<"a">>]}
LabPool == {[name |-> <<"a", "b">>], [unit |-> <<"a">>]}

\* entity values the model draws
ValuePool == {<<"a", "b">>, <<"a">>, <<"E", "1">>}
LinkTypes == {"MEDICAMENTO", "DIAGNOSTICO", "CODIGO_CIE10", "SIGNO_VITAL", "DOSIS"}

LinkInputEntity(type, value) ==
    [entity_type |-> type, value |-> value, normalized_value |-> NoText,
     confidence |-> 80, start_char |-> 0, end_char |-> Len(value)]

InitLink ==
    /\ l_pc = "start"
    /\ l_cie10 \in SeqsUpTo(Cie10Pool, MaxCatalog)
    /\ l_meds \in SeqsUpTo(MedPool, MaxCatalog)
    /\ l_labs \in SeqsUpTo(LabPool, MaxCatalog)
    /\ l_entities = <<>>
    /\ l_linked = <<>>

RestLink ==
    /\ l_pc = "rest" /\ l_cie10 = <<>> /\ l_meds = <<>> /\ l_labs = <<>>
    /\ l_entities = <<>> /\ l_linked = <<>>

\* linker.link_entities(entities), called with at most n entities, returns
LinkReturnsUpTo(n) ==
    /\ l_pc = "start"
    /\ \E tv \in SeqsUpTo(LinkTypes \X ValuePool, n) :
          LET ents == [i \in 1..Len(tv) |-> LinkInputEntity(tv[i][1], tv[i][2])]
              out == LinkEntities(l_cie10, l_meds, l_labs, ents)
          IN  /\ ~out.raised
              /\ l_entities' = out.entities
              /\ l_linked' = out.linked
    /\ l_pc' = "returned"
    /\ UNCHANGED <<l_cie10, l_meds, l_labs>>
    /\ FrameLink

\* linker.link_entities(entities), called with at most n entities, raises
\* IndexError
LinkRaisesUpTo(n) ==
    /\ l_pc = "start"
    /\ \E tv \in SeqsUpTo(LinkTypes \X ValuePool, n) :
          LET ents == [i \in 1..Len(tv) |-> LinkInputEntity(tv[i][1], tv[i][2])]
          IN  /\ LinkEntities(l_cie10, l_meds, l_labs, ents).raised
              /\ l_entities' = ents
    /\ l_linked' = <<>>
    /\ l_pc' = "raised"
    /\ UNCHANGED <<l_cie10, l_meds, l_labs>>
    /\ FrameLink

LinkReturns == LinkReturnsUpTo(MaxEntities)
LinkRaises == LinkRaisesUpTo(MaxEntities)
NextLink == LinkReturns \/ LinkRaises

\* link_entities called with one entity or none
LinkOneReturns == LinkReturnsUpTo(1)
LinkOneRaises == LinkRaisesUpTo(1)
NextLinkOne == LinkOneReturns \/ LinkOneRaises

(***************************************************************************)
(* DocumentClassifier                                                      *)
(*                                                                         *)
(* A text reaches the keyword heuristic as the set of keywords occurring   *)
(* in its lower-cased form.  Weights are doubled (in halves); a            *)
(* probability map is kept as numerators over one denominator, and a       *)
(* confidence as a fraction.                                               *)
(***************************************************************************)
DOCUMENT_LABELS ==
    <<"receta", "laboratorio", "nota_medica", "referencia", "consentimiento", "otro">>

Labels == {DOCUMENT_LABELS[i] : i \in DOMAIN DOCUMENT_LABELS}

\* _classify_heuristic: the keyword tables, per label
KeywordTable ==
    [receta |->
        {<<"rx:", 6>>, <<"receta", 5>>, <<"medicamento", 4>>, <<"tableta", 4>>,
         <<"capsula", 4>>, <<"cada 8 horas", 5>>, <<"cada 12 horas", 5>>,
         <<"cada 24 horas", 5>>, <<"via oral", 3>>, <<"por 30 dias", 4>>,
         <<"por 15 dias", 4>>, <<"dosis", 3>>, <<"mg ", 2>>, <<"jarabe", 3>>},
     laboratorio |->
        {<<"resultado", 4>>, <<"laboratorio", 6>>, <<"mg/dl", 5>>, <<"g/dl", 5>>,
         <<"glucosa", 4>>, <<"hemoglobina", 4>>, <<"colesterol", 4>>,
         <<"trigliceridos", 4>>, <<"creatinina", 4>>, <<"biometria", 5>>,
         <<"quimica sanguinea", 6>>, <<"urea", 3>>, <<"rango", 3>>,
         <<"referencia", 2>>, <<"muestra", 3>>, <<"hematica", 4>>,
         <<"eritrocitos", 4>>, <<"leucocitos", 4>>},
     nota_medica |->
        {<<"nota medica", 6>>, <<"nota de evolucion", 6>>, <<"exploracion fisica", 5>>,
         <<"signos vitales", 5>>, <<"plan:", 4>>, <<"subjetivo", 4>>,
         <<"objetivo", 3>>, <<"interrogatorio", 4>>, <<"motivo de consulta", 5>>,
         <<"antecedentes", 4>>, <<"padecimiento actual", 5>>},
     referencia |->
        {<<"referencia", 5>>, <<"contrareferencia", 6>>, <<"motivo de envio", 6>>,
         <<"hospital de referencia", 6>>, <<"unidad de referencia", 5>>,
         <<"se refiere", 4>>, <<"segundo nivel", 5>>, <<"tercer nivel", 5>>,
         <<"tratamiento previo", 4>>},
     consentimiento |->
        {<<"consentimiento", 6>>, <<"informado", 5>>, <<"autorizo", 5>>,
         <<"acepto", 4>>, <<"riesgos", 3>>, <<"procedimiento", 3>>,
         <<"firma del paciente", 5>>},
     otro |-> {}]

Keywords == UNION {{kw[1] : kw \in KeywordTable[l]} : l \in Labels}

\* a keyword that contains another cannot occur without it
CanOccurTogether(kws) ==
    /\ "mg/dl" \in kws => "g/dl" \in kws
    /\ (kws \cap {"contrareferencia", "hospital de referencia",
                  "unidad de referencia"}) # {} => "referencia" \in kws

RECURSIVE SumOver(_, _)
\* sum(f[x] for x in S)
SumOver(f, S) ==
    IF S = {} THEN 0
    ELSE LET x == CHOOSE y \in S : TRUE IN f[x] + SumOver(f, S \ {x})

Score(label, kws) ==
    LET hits == {kw \in KeywordTable[label] : kw[1] \in kws}
    IN  SumOver([kw \in hits |-> kw[2]], hits)

Fraction(n, d) == [num |-> n, den |-> d]
FracLess(x, y) == x.num * y.den < y.num * x.den
FracEq(x, y) == x.num * y.den = y.num * x.den

\* no cap at all on the heuristic's confidence
ConfidenceUncapped == Fraction(1, 1)

CONFIDENCE_CAP == Fraction(95, 100)

ClassificationResult(type, conf, probs, den, model) ==
    [document_type |-> type, confidence |-> conf,
     all_probabilities |-> [num |-> probs, den |-> den], model_used |-> model]

\* the default of the all_probabilities field: an empty dict
NoProbabilities == [l \in {} |-> 0]

\* max(probabilities, key=probabilities.get): the first label, in the
\* order of the dict, with the greatest value
ArgMax(scores) ==
    DOCUMENT_LABELS[CHOOSE i \in DOMAIN DOCUMENT_LABELS :
        /\ \A j \in DOMAIN DOCUMENT_LABELS : scores[DOCUMENT_LABELS[j]] <= scores[DOCUMENT_LABELS[i]]
        /\ \A j \in 1..(i - 1) : scores[DOCUMENT_LABELS[j]] < scores[DOCUMENT_LABELS[i]]]

\* _classify_heuristic
ClassifyHeuristic(kws) ==
    LET scores == [l \in Labels |-> Score(l, kws)]
        total == SumOver(scores, Labels)
        best == ArgMax(scores)
        conf == Fraction(scores[best], total)
    IN  IF total = 0
        THEN ClassificationResult("otro", Fraction(1, 2), [l \in Labels |-> 1],
                                  Cardinality(Labels), "heuristic")
        ELSE ClassificationResult(best,
                                  IF FracLess(CONFIDENCE_CAP, conf) THEN CONFIDENCE_CAP ELSE conf,
                                  scores, total, "heuristic")

\* _classify_with_model: the soft-max of the model's logits
ClassifyWithModel(probs, den) ==
    LET best == ArgMax(probs)
    IN  ClassificationResult(best, Fraction(probs[best], den), probs, den, "fine_tuned")

\* DocumentClassifier.classify: blank says whether the text is empty or all
\* whitespace; probs/den is what the fine-tuned model would answer
Classify(blank, kws, is_fine_tuned, model, probs, den) ==
    IF blank
    THEN ClassificationResult("otro", Fraction(0, 1), [l \in Labels |-> 0], 1, "empty_input")
    ELSE IF is_fine_tuned /\ model # None THEN ClassifyWithModel(probs, den)
    ELSE ClassifyHeuristic(kws)

(***************************************************************************)
(* DocumentClassifier, one instance called again and again                 *)
(*                                                                         *)
(* A text is given by whether it is blank and by the set of keywords that  *)
(* occur in it.  The fine-tuned model, once loaded, answers one of a few   *)
(* probability maps.                                                       *)
(***************************************************************************)
MaxKeywords == 2
MaxClfCalls == 2

\* keywords of every table, among them one of two tables, two that contain
\* another, and pairs of equal weight
ClfKeywords ==
    {"rx:", "receta", "mg ", "g/dl", "mg/dl", "biometria", "referencia",
     "contrareferencia", "plan:", "objetivo", "consentimiento", "riesgos"}

RECURSIVE KeywordSets(_)
KeywordSets(n) ==
    IF n = 0 THEN {{}}
    ELSE LET smaller == KeywordSets(n - 1)
         IN  smaller \cup {S \cup {k} : S \in smaller, k \in ClfKeywords}

ClfTexts(n) ==
    {[blank |-> TRUE, kws |-> {}]} \cup
    {[blank |-> FALSE, kws |-> kws] : kws \in {S \in KeywordSets(n) : CanOccurTogether(S)}}

NoClfText == [blank |-> TRUE, kws |-> {"-"}]

\* soft-max outputs of a fine-tuned model, in hundredths
ModelProbabilities ==
    {[l \in Labels |-> IF l = "receta" THEN 90 ELSE 2],
     [l \in Labels |-> IF l = "otro" THEN 50 ELSE 10]}

\* DocumentClassifier.__init__
InitClf ==
    /\ k_model_path \in {None, "models/classifier"}
    /\ k_path_exists \in IF k_model_path = None THEN {FALSE} ELSE BOOLEAN
    /\ k_model = None
    /\ k_tokenizer = None
    /\ k_is_fine_tuned = FALSE
    /\ k_calls = 0
    /\ k_text = NoClfText
    /\ k_result = None

RestClf ==
    /\ k_model_path = None /\ k_path_exists = FALSE /\ k_model = None
    /\ k_tokenizer = None /\ k_is_fine_tuned = FALSE /\ k_calls = MaxClfCalls
    /\ k_text = NoClfText /\ k_result = None

\* _load_model
ClfLoadModel ==
    IF k_model_path # None /\ k_path_exists
    THEN /\ k_tokenizer' = "fine_tuned_tokenizer"
         /\ k_model' = "fine_tuned_model"
         /\ k_is_fine_tuned' = TRUE
    ELSE /\ k_is_fine_tuned' = FALSE
         /\ k_tokenizer' \in {"base_tokenizer", "fallback_tokenizer", None}
         /\ k_model' = k_model

\* the properties model and tokenizer, read from outside classify
ClfReadModel ==
    /\ k_calls < MaxClfCalls
    /\ k_model = None \/ k_tokenizer = None
    /\ ClfLoadModel
    /\ UNCHANGED <<k_model_path, k_path_exists, k_calls, k_text, k_result>>
    /\ FrameClf

\* classify(text)
ClfClassify ==
    /\ k_calls < MaxClfCalls
    /\ \E text \in ClfTexts(MaxKeywords), probs \in ModelProbabilities :
          /\ k_text' = text
          /\ k_result' = Classify(text.blank, text.kws, k_is_fine_tuned, k_model, probs, 100)
    /\ k_calls' = k_calls + 1
    /\ UNCHANGED <<k_model_path, k_path_exists, k_model, k_tokenizer, k_is_fine_tuned>>
    /\ FrameClf

NextClf == ClfReadModel \/ ClfClassify

(***************************************************************************)
(* NLPPipeline.process                                                     *)
(*                                                                         *)
(* One pipeline is shared by the threads of p_threads; each runs process() *)
(* call after call.  A request carries the raw text and, separately, the   *)
(* classifier keywords that occur in it: the letter "a" of a text stands   *)
(* for any run of non-blank characters.                                    *)
(***************************************************************************)
MaxPipeLen == 2

Threads == {"t1", "t2"}
PipeAlphabet == {"a", SP}
PipeKeywords == {"receta", "glucosa"}
\* doc_type arguments: absent, empty, one with an extractor of its own and
\* one without
DocTypePool == {None, "", "receta", "expediente"}

IsBlankText(t) == Strip(t) = <<>>

\* the requests of a workload
Requests(workload) ==
    {r \in [text : SeqsUpTo(PipeAlphabet, MaxPipeLen),
            keywords : SUBSET PipeKeywords,
            doc_type : DocTypePool] :
        /\ IsBlankText(r.text) => r.keywords = {}
        /\ CanOccurTogether(r.keywords)
        /\ workload = "untyped words" => r.text = <<"a">> /\ r.doc_type = None}

\* the linker's cie10 catalog: a complete record, or one lacking its code
PipeCie10 ==
    {<<[code |-> <<"E", "1">>, name |-> <<"a", "b">>]>>,
     <<[name |-> <<"a", "b">>]>>}
PipeMeds == <<[generic_name |-> <<"a", "b">>]>>
PipeLabs == <<[name |-> <<"a", "b">>]>>

\* bool(doc_type)
DocTypeGiven(doc_type) == doc_type \notin {None, ""}

\* LOW_CONFIDENCE at one half
LowConfidenceAtHalf == Fraction(5, 10)

LOW_CONFIDENCE == Fraction(6, 10)

\* extract_structured_data: extractors.get(doc_type, self._extract_generic)
Extractor(doc_type) ==
    CASE doc_type = "receta" -> "_extract_receta"
      [] doc_type = "laboratorio" -> "_extract_laboratorio"
      [] doc_type = "nota_medica" -> "_extract_nota_medica"
      [] doc_type = "referencia" -> "_extract_referencia"
      [] OTHER -> "_extract_generic"

\* ExtractionResult; of structured_data the model keeps the extractor that
\* built it
ExtractionResult(entities, extractor, model) ==
    [entities |-> entities, structured_data |-> [extractor |-> extractor],
     model_used |-> model]

\* ExtractionResult()
EmptyExtractionResult == ExtractionResult(<<>>, None, "")

\* the entity of extract_entities with value as text: text[i:j] of its span
EntityOfText(text, e) ==
    [entity_type |-> e.entity_type,
     value |-> SubSeq(text, e.value[1] + 1, e.value[2]),
     normalized_value |-> NoText,
     confidence |-> e.confidence,
     start_char |-> e.start_char, end_char |-> e.end_char]

NLPResult(cleaned, classification, extraction, linked, warnings) ==
    [cleaned_text |-> cleaned, classification |-> classification,
     extraction |-> extraction, linked_entities |-> linked, warnings |-> warnings]

\* ShortCircuitResult without its warning
ShortCircuitResultSilent(cleaned) ==
    NLPResult(cleaned,
              ClassificationResult("otro", Fraction(0, 1), NoProbabilities, 1, "empty"),
              EmptyExtractionResult, <<>>, <<>>)

\* process: the result returned when the cleaned text is empty
ShortCircuitResult(cleaned) ==
    NLPResult(cleaned,
              ClassificationResult("otro", Fraction(0, 1), NoProbabilities, 1, "empty"),
              EmptyExtractionResult, <<>>, <<<<"empty_text_after_cleaning">>>>)

\* ClassifyGiven with the classifier's default label instead of the caller's
ClassifyGivenAsOtro(doc_type) ==
    ClassificationResult("otro", Fraction(1, 1), NoProbabilities, 1, "user_provided")

\* process: the classification built from the caller's doc_type
ClassifyGiven(doc_type) ==
    ClassificationResult(doc_type, Fraction(1, 1), NoProbabilities, 1, "user_provided")

NoFrame ==
    [text |-> <<>>, keywords |-> {}, doc_type |-> None, cleaned |-> None,
     classification |-> None, extraction |-> None, warnings |-> <<>>]

\* NLPPipeline.__init__: nothing is loaded but the linker's catalogs
InitPipe ==
    /\ p_ner_model_path \in {None, "models/ner"}
    /\ p_ner_nlp = None
    /\ p_ner_is_custom = FALSE
    /\ p_clf_model = None
    /\ p_clf_is_fine_tuned = FALSE
    /\ p_cie10 \in PipeCie10
    /\ p_meds = PipeMeds
    /\ p_labs = PipeLabs
    /\ p_pc = [t \in Threads |-> "idle"]
    /\ p_frame = [t \in Threads |-> NoFrame]
    /\ p_trace = [t \in Threads |-> <<>>]
    /\ p_result = [t \in Threads |-> None]

RestPipe ==
    /\ p_threads = {} /\ p_workload = None
    /\ p_ner_model_path = None /\ p_ner_nlp = None /\ p_ner_is_custom = FALSE
    /\ p_clf_model = None /\ p_clf_is_fine_tuned = FALSE
    /\ p_cie10 = <<>> /\ p_meds = <<>> /\ p_labs = <<>>
    /\ p_pc = [t \in Threads |-> "idle"]
    /\ p_frame = [t \in Threads |-> NoFrame]
    /\ p_trace = [t \in Threads |-> <<>>]
    /\ p_result = [t \in Threads |-> None]

\* process(text, doc_type), step 1: clean, and return at once when nothing
\* is left of the text
CleanStep(t) ==
    /\ p_pc[t] = "idle"
    /\ \E r \in Requests(p_workload) :
          LET cleaned == Clean(r.text, FALSE)
          IN  /\ p_frame' = [p_frame EXCEPT ![t] =
                    [NoFrame EXCEPT !.text = r.text, !.keywords = r.keywords,
                                    !.doc_type = r.doc_type, !.cleaned = cleaned]]
              /\ IF cleaned.cleaned = <<>>
                 THEN /\ p_result' = [p_result EXCEPT ![t] = ShortCircuitResult(cleaned)]
                      /\ p_pc' = [p_pc EXCEPT ![t] = "returned"]
                 ELSE /\ p_result' = p_result
                      /\ p_pc' = [p_pc EXCEPT ![t] = "classify"]
    /\ p_trace' = [p_trace EXCEPT ![t] = <<"clean">>]
    /\ UNCHANGED <<p_threads, p_workload, vars_shared>>
    /\ FramePipe

\* step 2: take the caller's type, or classify (by the keyword heuristic:
\* nothing in classify ever sets _is_fine_tuned)
ClassifyStep(t) ==
    /\ p_pc[t] = "classify"
    /\ LET f == p_frame[t]
           c == Classify(IsBlankText(f.cleaned.cleaned), f.keywords,
                         p_clf_is_fine_tuned, p_clf_model, [l \in Labels |-> 1],
                         Cardinality(Labels))
       IN  IF DocTypeGiven(f.doc_type)
           THEN /\ p_frame' = [p_frame EXCEPT ![t].classification = ClassifyGiven(f.doc_type)]
                /\ p_trace' = p_trace
           ELSE /\ p_frame' = [p_frame EXCEPT
                      ![t].classification = c,
                      ![t].warnings =
                          IF FracLess(c.confidence, LOW_CONFIDENCE)
                          THEN Append(@, <<"low_classification_confidence",
                                           c.confidence.num, c.confidence.den>>)
                          ELSE @]
                /\ p_trace' = [p_trace EXCEPT ![t] = Append(@, "classify")]
    /\ p_pc' = [p_pc EXCEPT ![t] = "extract"]
    /\ UNCHANGED <<p_threads, p_workload, vars_shared, p_result>>
    /\ FramePipe

\* step 3 begins: extract_structured_data -> extract_entities -> self.nlp,
\* the test "self._nlp is None"
NlpCheck(t) ==
    /\ p_pc[t] = "extract"
    /\ p_trace' = [p_trace EXCEPT ![t] = Append(@, "extract_structured_data")]
    /\ p_pc' = [p_pc EXCEPT ![t] = IF p_ner_nlp = None THEN "load" ELSE "tag"]
    /\ UNCHANGED <<p_threads, p_workload, vars_shared, p_frame, p_result>>
    /\ FramePipe

\* self._nlp = self._load_model(), the model loads
LoadModel(t) ==
    /\ p_pc[t] = "load"
    /\ p_ner_is_custom' = (p_ner_model_path # None)
    /\ p_ner_nlp' = IF p_ner_model_path # None THEN p_ner_model_path
                    ELSE "es_core_news_lg+rules"
    /\ p_pc' = [p_pc EXCEPT ![t] = "tag"]
    /\ UNCHANGED <<p_threads, p_workload, p_ner_model_path, p_clf_model,
                   p_clf_is_fine_tuned, p_cie10, p_meds, p_labs,
                   p_frame, p_trace, p_result>>
    /\ FramePipe

\* self._load_model() with a model_path: spacy.load(self.model_path) raises
\* on a directory that holds no loadable model, after _is_custom is set
LoadModelRaises(t) ==
    /\ p_pc[t] = "load"
    /\ p_ner_model_path # None
    /\ p_ner_is_custom' = TRUE
    /\ p_pc' = [p_pc EXCEPT ![t] = "raised"]
    /\ UNCHANGED <<p_threads, p_workload, p_ner_model_path, p_ner_nlp, p_clf_model,
                   p_clf_is_fine_tuned, p_cie10, p_meds, p_labs,
                   p_frame, p_trace, p_result>>
    /\ FramePipe

\* step 3 ends: doc = nlp(text), the regex pass, the merge, the structured
\* extractor of the document type; then the no-entities warning
TagStep(t) ==
    /\ p_pc[t] = "tag"
    /\ LET f == p_frame[t]
           text == f.cleaned.cleaned
       IN  \E ents \in DocEnts(Len(text)), m \in RegexMatches(Len(text)) :
             LET merged == MergeEntities(SpacyEntities(ents, p_ner_is_custom),
                                         RegexEntities(m))
                 entities == [i \in 1..Len(merged) |-> EntityOfText(text, merged[i])]
             IN  p_frame' = [p_frame EXCEPT
                     ![t].extraction =
                         ExtractionResult(entities, Extractor(f.classification.document_type),
                                          IF p_ner_model_path # None THEN p_ner_model_path
                                          ELSE "es_core_news_lg+rules"),
                     ![t].warnings = IF entities = <<>>
                                     THEN Append(@, <<"no_entities_extracted">>)
                                     ELSE @]
    /\ p_pc' = [p_pc EXCEPT ![t] = "link"]
    /\ UNCHANGED <<p_threads, p_workload, vars_shared, p_trace, p_result>>
    /\ FramePipe

\* step 4: link_entities, and return the NLPResult; an exception of
\* link_entities leaves process() as it is, nothing catches it
LinkStep(t) ==
    /\ p_pc[t] = "link"
    /\ LET f == p_frame[t]
           out == LinkEntities(p_cie10, p_meds, p_labs, f.extraction.entities)
       IN  IF out.raised
           THEN /\ p_pc' = [p_pc EXCEPT ![t] = "raised"]
                /\ UNCHANGED <<p_frame, p_result>>
           ELSE /\ p_pc' = [p_pc EXCEPT ![t] = "returned"]
                /\ p_frame' = [p_frame EXCEPT ![t].extraction.entities = out.entities]
                /\ p_result' = [p_result EXCEPT ![t] =
                      NLPResult(f.cleaned, f.classification,
                                [f.extraction EXCEPT !.entities = out.entities],
                                out.linked, f.warnings)]
    /\ p_trace' = [p_trace EXCEPT ![t] = Append(@, "link_entities")]
    /\ UNCHANGED <<p_threads, p_workload, vars_shared>>
    /\ FramePipe

\* the caller has the result, or the exception; the thread is free again
Finish(t) ==
    /\ p_pc[t] \in {"returned", "raised"}
    /\ p_pc' = [p_pc EXCEPT ![t] = "idle"]
    /\ p_frame' = [p_frame EXCEPT ![t] = NoFrame]
    /\ p_trace' = [p_trace EXCEPT ![t] = <<>>]
    /\ p_result' = [p_result EXCEPT ![t] = None]
    /\ UNCHANGED <<p_threads, p_workload, vars_shared>>
    /\ FramePipe

Cleaning == \E t \in p_threads : CleanStep(t)
Classifying == \E t \in p_threads : ClassifyStep(t)
CheckingNlp == \E t \in p_threads : NlpCheck(t)
Loading == \E t \in p_threads : LoadModel(t)
LoadFailing == \E t \in p_threads : LoadModelRaises(t)
Tagging == \E t \in p_threads : TagStep(t)
Linking == \E t \in p_threads : LinkStep(t)
Finishing == \E t \in p_threads : Finish(t)

NextPipe ==
    Cleaning \/ Classifying \/ CheckingNlp \/ Loading \/ LoadFailing \/ Tagging
    \/ Linking \/ Finishing

(***************************************************************************)
(* ImageHandler.load_from_path, load_from_bytes and                        *)
(* OCRExtractor.extract_from_image                                         *)
(***************************************************************************)
MaxOver == 2

MAX_FILE_SIZE_MB == 10
MB == 1024 * 1024

\* payload sizes in bytes: empty, small, and those around the limit
Sizes == {0, 1} \cup {MAX_FILE_SIZE_MB * MB + d : d \in (-MaxOver)..MaxOver}

\* average word confidences Tesseract may report
Confidences == {0, 29, 30, 49, 50, 90}

\* TooLarge on whole megabytes
TooLargeWholeMB(size) == size \div MB > MAX_FILE_SIZE_MB

\* file_size_mb > MAX_FILE_SIZE_MB, with file_size_mb = size / (1024 * 1024)
TooLarge(size) == size > MAX_FILE_SIZE_MB * MB

InitImage ==
    /\ i_pc = "start"
    /\ i_entry \in {"load_from_path", "load_from_bytes", "extract_from_image"}
    /\ i_exists \in BOOLEAN
    /\ i_suffix_ok \in BOOLEAN
    /\ i_entry = "load_from_bytes" => i_exists /\ i_suffix_ok
    /\ i_size \in Sizes
    /\ i_decodable \in BOOLEAN
    /\ i_steps = <<>>
    /\ i_error = None
    /\ i_result = None

RestImage ==
    /\ i_pc = "rest" /\ i_entry = None /\ i_exists = FALSE /\ i_suffix_ok = FALSE
    /\ i_size = 0 /\ i_decodable = FALSE /\ i_steps = <<>>
    /\ i_error = None /\ i_result = None

\* the checks load_from_path and load_from_bytes make before decoding
Validate ==
    /\ i_pc = "start"
    /\ LET error ==
             IF i_entry = "load_from_bytes"
             THEN IF i_size = 0 THEN "ValueError: vacios"
                  ELSE IF TooLarge(i_size) THEN "ValueError: excede el limite"
                  ELSE None
             ELSE IF ~i_exists THEN "FileNotFoundError"
                  ELSE IF ~i_suffix_ok THEN "ValueError: formato no soportado"
                  ELSE IF TooLarge(i_size) THEN "ValueError: excede el limite"
                  ELSE None
       IN  /\ i_error' = error
           /\ i_pc' = IF error = None THEN "decode" ELSE "raised"
    /\ UNCHANGED <<i_entry, i_exists, i_suffix_ok, i_size, i_decodable, i_steps, i_result>>
    /\ FrameImage

\* cv2.imread / cv2.imdecode, and the test of its result
Decode ==
    /\ i_pc = "decode"
    /\ i_steps' = Append(i_steps, "decode")
    /\ IF ~i_decodable
       THEN /\ i_error' = "ValueError: no se pudo leer"
            /\ i_pc' = "raised"
            /\ i_result' = i_result
       ELSE /\ i_error' = i_error
            /\ i_pc' = IF i_entry = "extract_from_image" THEN "preprocess" ELSE "returned"
            /\ i_result' = IF i_entry = "extract_from_image" THEN i_result ELSE "image"
    /\ UNCHANGED <<i_entry, i_exists, i_suffix_ok, i_size, i_decodable>>
    /\ FrameImage

\* extract_from_image: self.preprocessor.preprocess(image)
Preprocess ==
    /\ i_pc = "preprocess"
    /\ i_steps' = Append(i_steps, "preprocess")
    /\ i_pc' = "ocr"
    /\ UNCHANGED <<i_entry, i_exists, i_suffix_ok, i_size, i_decodable, i_error, i_result>>
    /\ FrameImage

\* extract_from_image: Tesseract, the confidence warnings, the OCRResult
Ocr ==
    /\ i_pc = "ocr"
    /\ i_steps' = Append(i_steps, "ocr")
    /\ \E avg_confidence \in Confidences :
          i_result' = [confidence |-> avg_confidence, page_count |-> 1,
                       warnings |->
                           (IF avg_confidence < 50 THEN <<"Confianza baja">> ELSE <<>>)
                           \o (IF avg_confidence < 30 THEN <<"Confianza muy baja">> ELSE <<>>)]
    /\ i_pc' = "returned"
    /\ UNCHANGED <<i_entry, i_exists, i_suffix_ok, i_size, i_decodable, i_error>>
    /\ FrameImage

NextImage == Validate \/ Decode \/ Preprocess \/ Ocr

(***************************************************************************)
(* MedicalNERExtractor.extract_structured_data                             *)
(*                                                                         *)
(* The text is long enough for the offsets below; the base model's entity  *)
(* ruler finds drug and test names, the regex groups find the rest.  A     *)
(* Python dict whose keys are fixed is a record; one whose keys depend on  *)
(* the data is a function from the keys it has.                            *)
(***************************************************************************)
MaxStructSpacy == 2
MaxStructRegex == 2

\* where a drug or test name stands in the text
StructNameSpans == {<<0, 3>>, <<12, 15>>}
StructNameLabels == {"MEDICAMENTO", "SIGNO_VITAL"}
\* where a regex group matches
StructMatchSpans ==
    {<<1, 4>>, <<5, 8>>, <<20, 23>>, <<115, 118>>, <<116, 119>>,
     <<165, 168>>, <<166, 169>>, <<215, 218>>, <<216, 219>>}
\* the regex groups that match: DOSIS, VALOR_MEDICION, RANGO_REFERENCIA, DURACION
StructGroups == {2, 3, 4, 7}
StructDocTypes == {"receta", "laboratorio", "nota_medica", "referencia", "otro"}

\* doc.ents: spans in text order that do not overlap
StructDocEnts(n) ==
    {d \in SeqsUpTo(StructNameLabels \X StructNameSpans, n) :
        \A i \in 1..(Len(d) - 1) : d[i][2][2] <= d[i + 1][2][1]}

\* what the re.finditer loops yield: group after group, the matches of one
\* group in text order and not overlapping
StructRegexMatches(n) ==
    {m \in SeqsUpTo(StructGroups \X StructMatchSpans, n) :
        \A i \in 1..(Len(m) - 1) :
            \/ m[i][1] < m[i + 1][1]
            \/ m[i][1] = m[i + 1][1] /\ m[i][2][2] <= m[i + 1][2][1]}

\* None where a value is expected
NoValue == <<-1, -1>>

RECURSIVE EntitiesOfType(_, _)
\* [e for e in entities if e.entity_type == type]
EntitiesOfType(entities, type) ==
    IF entities = <<>> THEN <<>>
    ELSE (IF Head(entities).entity_type = type THEN <<Head(entities)>> ELSE <<>>)
             \o EntitiesOfType(Tail(entities), type)

\* [e.value for e in entities if e.entity_type == type]
ValuesOfType(entities, type) ==
    LET es == EntitiesOfType(entities, type)
    IN  [i \in 1..Len(es) |-> es[i].value]

\* values[0] if values else None
FirstOrNone(values) == IF values = <<>> THEN NoValue ELSE values[1]

MinOf(S) == CHOOSE x \in S : \A y \in S : x <= y

\* _extract_receta: the key of med_data each entity type fills
MedFields ==
    [dosis |-> "DOSIS", presentacion |-> "PRESENTACION",
     frecuencia |-> "FRECUENCIA_TIEMPO", duracion |-> "DURACION"]

\* _extract_receta: nearby, as the positions in entities it keeps
Nearby(entities, med) ==
    {i \in 1..Len(entities) :
        /\ entities[i].start_char >= med.start_char - 10
        /\ entities[i].start_char <= med.end_char + 200
        /\ entities[i].entity_type # "MEDICAMENTO"}

\* _extract_receta, the body of the loop over med_entities: the loop over
\* nearby lets the first entity of a type fill the key of that type
MedData(entities, med) ==
    LET near == Nearby(entities, med)
        OfType(f) == {i \in near : entities[i].entity_type = MedFields[f]}
        filled == {f \in DOMAIN MedFields : OfType(f) # {}}
    IN  [k \in {"nombre"} \cup filled |->
            IF k = "nombre" THEN med.value ELSE entities[MinOf(OfType(k))].value]

\* _extract_receta
ExtractReceta(entities) ==
    LET meds == EntitiesOfType(entities, "MEDICAMENTO")
    IN  [medicamentos |-> [i \in 1..Len(meds) |-> MedData(entities, meds[i])],
         diagnostico |-> FirstOrNone(ValuesOfType(entities, "DIAGNOSTICO")),
         codigo_cie10 |-> FirstOrNone(ValuesOfType(entities, "CODIGO_CIE10")),
         fecha |-> FirstOrNone(ValuesOfType(entities, "FECHA"))]

\* NearbyValues without the lower end of its window
NearbyValuesFromAnywhere(entities, vital) ==
    {i \in 1..Len(entities) :
        /\ entities[i].entity_type = "VALOR_MEDICION"
        /\ entities[i].start_char <= vital.end_char + 100}

\* _extract_laboratorio: nearby_values, as the positions in entities it keeps
NearbyValues(entities, vital) ==
    {i \in 1..Len(entities) :
        /\ entities[i].entity_type = "VALOR_MEDICION"
        /\ entities[i].start_char >= vital.start_char
        /\ entities[i].start_char <= vital.end_char + 100}

\* _extract_laboratorio: nearby_ranges
NearbyRanges(entities, vital) ==
    {i \in 1..Len(entities) :
        /\ entities[i].entity_type = "RANGO_REFERENCIA"
        /\ entities[i].start_char >= vital.start_char
        /\ entities[i].start_char <= vital.end_char + 150}

\* _extract_laboratorio, the body of the loop over vital_entities
LabResult(entities, vital) ==
    LET values == NearbyValues(entities, vital)
        ranges == NearbyRanges(entities, vital)
        keys == {"analisis"} \cup (IF values # {} THEN {"valor"} ELSE {})
                    \cup (IF ranges # {} THEN {"rango_referencia"} ELSE {})
    IN  [k \in keys |->
            CASE k = "analisis" -> vital.value
              [] k = "valor" -> entities[MinOf(values)].value
              [] k = "rango_referencia" -> entities[MinOf(ranges)].value]

\* _extract_laboratorio
ExtractLaboratorio(entities) ==
    LET vitals == EntitiesOfType(entities, "SIGNO_VITAL")
    IN  [resultados |-> [i \in 1..Len(vitals) |-> LabResult(entities, vitals[i])],
         fecha |-> FirstOrNone(ValuesOfType(entities, "FECHA"))]

\* _extract_nota_medica
ExtractNotaMedica(entities) ==
    LET vitales == ValuesOfType(entities, "SIGNO_VITAL")
    IN  [diagnostico |-> ValuesOfType(entities, "DIAGNOSTICO"),
         codigos_cie10 |-> ValuesOfType(entities, "CODIGO_CIE10"),
         signos_vitales |-> [i \in 1..Len(vitales) |-> [tipo |-> vitales[i]]],
         medicamentos_mencionados |-> ValuesOfType(entities, "MEDICAMENTO"),
         fecha |-> FirstOrNone(ValuesOfType(entities, "FECHA"))]

\* _extract_referencia
ExtractReferencia(entities) ==
    [diagnostico |-> FirstOrNone(ValuesOfType(entities, "DIAGNOSTICO")),
     medicamentos_previos |-> ValuesOfType(entities, "MEDICAMENTO"),
     fecha |-> FirstOrNone(ValuesOfType(entities, "FECHA"))]

RECURSIVE ExtractGeneric(_)
\* _extract_generic: a dict in insertion order, type by type the values
ExtractGeneric(entities) ==
    IF entities = <<>> THEN <<>>
    ELSE LET ent == entities[Len(entities)]
             grouped == ExtractGeneric(SubSeq(entities, 1, Len(entities) - 1))
         IN  IF HasKey(grouped, ent.entity_type)
             THEN DictSet(grouped, ent.entity_type,
                          Append(Lookup(grouped, ent.entity_type), ent.value))
             ELSE DictSet(grouped, ent.entity_type, <<ent.value>>)

InitStruct ==
    /\ s_pc = "start"
    /\ s_doc_type = None
    /\ s_entities = <<>>
    /\ s_structured = None

RestStruct ==
    /\ s_pc = "rest" /\ s_doc_type = None /\ s_entities = <<>> /\ s_structured = None

\* entities = self.extract_entities(text): none for a blank text, else the
\* merge of the entities of doc.ents with the regex entities
StructExtractEntities ==
    /\ s_pc = "start"
    /\ \E blank \in BOOLEAN, ents \in StructDocEnts(MaxStructSpacy),
          m \in StructRegexMatches(MaxStructRegex) :
            s_entities' = IF blank THEN <<>>
                          ELSE MergeEntities(SpacyEntities(ents, FALSE), RegexEntities(m))
    /\ s_pc' = "entities"
    /\ UNCHANGED <<s_doc_type, s_structured>>
    /\ FrameStruct

\* extractors.get(doc_type, self._extract_generic) and the call of the
\* extractor it chose, one action per extractor
StructReceta ==
    /\ s_pc = "entities"
    /\ s_doc_type' = "receta"
    /\ Extractor(s_doc_type') = "_extract_receta"
    /\ s_structured' = ExtractReceta(s_entities)
    /\ s_pc' = "returned"
    /\ UNCHANGED s_entities
    /\ FrameStruct

StructLaboratorio ==
    /\ s_pc = "entities"
    /\ s_doc_type' = "laboratorio"
    /\ Extractor(s_doc_type') = "_extract_laboratorio"
    /\ s_structured' = ExtractLaboratorio(s_entities)
    /\ s_pc' = "returned"
    /\ UNCHANGED s_entities
    /\ FrameStruct

StructNotaMedica ==
    /\ s_pc = "entities"
    /\ s_doc_type' = "nota_medica"
    /\ Extractor(s_doc_type') = "_extract_nota_medica"
    /\ s_structured' = ExtractNotaMedica(s_entities)
    /\ s_pc' = "returned"
    /\ UNCHANGED s_entities
    /\ FrameStruct

StructReferencia ==
    /\ s_pc = "entities"
    /\ s_doc_type' = "referencia"
    /\ Extractor(s_doc_type') = "_extract_referencia"
    /\ s_structured' = ExtractReferencia(s_entities)
    /\ s_pc' = "returned"
    /\ UNCHANGED s_entities
    /\ FrameStruct

StructGeneric ==
    /\ s_pc = "entities"
    /\ \E doc_type \in StructDocTypes :
        /\ s_doc_type' = doc_type
        /\ Extractor(doc_type) = "_extract_generic"
    /\ s_structured' = ExtractGeneric(s_entities)
    /\ s_pc' = "returned"
    /\ UNCHANGED s_entities
    /\ FrameStruct

NextStruct ==
    \/ StructExtractEntities
    \/ StructReceta
    \/ StructLaboratorio
    \/ StructNotaMedica
    \/ StructReferencia
    \/ StructGeneric

(***************************************************************************)
(* PDFHandler, OCRExtractor.extract_from_pdf and extract_from_numpy        *)
(*                                                                         *)
(* A PDF is the sequence of its pages.  A page has its embedded text and   *)
(* what Tesseract reads from its raster: the text and the word data, one   *)
(* record per index of the lists of image_to_data.  A confidence is a      *)
(* Fraction.                                                               *)
(***************************************************************************)
MaxPdfPages == 2
MaxOverPages == 1
MaxWords == 3

MAX_PDF_SIZE_MB == 10
MAX_PDF_PAGES == 50

FracAdd(x, y) == Fraction(x.num * y.den + y.num * x.den, x.den * y.den)
MaxOf(S) == CHOOSE x \in S : \A y \in S : x >= y
Rep(c, n) == [i \in 1..n |-> c]

RECURSIVE JoinWith(_, _)
\* sep.join(texts)
JoinWith(texts, sep) ==
    IF texts = <<>> THEN <<>>
    ELSE IF Len(texts) = 1 THEN texts[1]
    ELSE LET mid == Len(texts) \div 2
         IN  JoinWith(SubSeq(texts, 1, mid), sep) \o sep
                 \o JoinWith(SubSeq(texts, mid + 1, Len(texts)), sep)

Word(text, conf, block_num, box) ==
    [text |-> text, conf |-> conf, block_num |-> block_num,
     left |-> box[1], top |-> box[2], width |-> box[3], height |-> box[4]]

\* words Tesseract may report: read ones, one of confidence 0, one with the
\* confidence -1 of an empty element, a blank one, one to be stripped
WordPool ==
    {Word(<<"a">>, 90, 1, <<0, 0, 2, 1>>),
     Word(<<"b">>, 40, 1, <<5, 3, 1, 1>>),
     Word(<<"c">>, 0, 2, <<1, 4, 3, 2>>),
     Word(<<"d">>, -1, 2, <<0, 0, 9, 9>>),
     Word(<<SP>>, 95, 1, <<7, 7, 1, 1>>),
     Word(<<SP, "e">>, 70, 3, <<2, 2, 0, 0>>)}

RECURSIVE RetainedWords(_)
\* _build_blocks_from_data, the first loop: the words it keeps, stripped
RetainedWords(data) ==
    IF data = <<>> THEN <<>>
    ELSE LET text == Strip(Head(data).text)
         IN  (IF Head(data).conf < 0 \/ text = <<>> THEN <<>>
              ELSE <<[Head(data) EXCEPT !.text = text]>>)
                 \o RetainedWords(Tail(data))

RECURSIVE WordsOfBlock(_, _)
\* blocks[block_num]
WordsOfBlock(words, block_num) ==
    IF words = <<>> THEN <<>>
    ELSE (IF Head(words).block_num = block_num THEN <<Head(words)>> ELSE <<>>)
             \o WordsOfBlock(Tail(words), block_num)

RECURSIVE SumConf(_)
SumConf(words) == IF words = <<>> THEN 0 ELSE Head(words).conf + SumConf(Tail(words))

RECURSIVE Sorted(_)
\* sorted(blocks.keys())
Sorted(S) == IF S = {} THEN <<>> ELSE <<MinOf(S)>> \o Sorted(S \ {MinOf(S)})

\* TextBlock of the words of one block
TextBlock(words, page) ==
    LET min_x == MinOf({words[i].left : i \in DOMAIN words})
        min_y == MinOf({words[i].top : i \in DOMAIN words})
        max_x == MaxOf({words[i].left + words[i].width : i \in DOMAIN words})
        max_y == MaxOf({words[i].top + words[i].height : i \in DOMAIN words})
    IN  [text |-> JoinWith([i \in DOMAIN words |-> words[i].text], <<SP>>),
         confidence |-> Fraction(SumConf(words), Len(words)),
         bbox |-> <<min_x, min_y, max_x - min_x, max_y - min_y>>,
         page |-> page, block_type |-> "paragraph"]

\* BuildBlocksFromData keeping the words of confidence -1 as well
BuildBlocksKeepingSentinel(data, page) ==
    LET words == [i \in DOMAIN data |-> [data[i] EXCEPT !.text = Strip(data[i].text)]]
        nums == Sorted({words[i].block_num : i \in DOMAIN words})
    IN  [blocks |-> [k \in 1..Len(nums) |-> TextBlock(WordsOfBlock(words, nums[k]), page)],
         confidence |-> Fraction(SumConf(words), IF Len(words) > 1 THEN Len(words) ELSE 1)]

\* _build_blocks_from_data: the blocks and the average confidence
BuildBlocksFromData(data, page) ==
    LET words == RetainedWords(data)
        nums == Sorted({words[i].block_num : i \in DOMAIN words})
    IN  [blocks |-> [k \in 1..Len(nums) |-> TextBlock(WordsOfBlock(words, nums[k]), page)],
         confidence |-> Fraction(SumConf(words), IF Len(words) > 1 THEN Len(words) ELSE 1)]

Page(native, text, data) == [native |-> native, text |-> text, data |-> data]

\* scanned pages: read well, read badly, read at 40, blank to
\* image_to_string though image_to_data has a word, with text but no word
ScannedPages ==
    {Page(<<>>, <<"a">>, <<Word(<<"a">>, 90, 1, <<0, 0, 2, 1>>)>>),
     Page(<<>>, <<"b", SP>>, <<Word(<<"b">>, 40, 1, <<5, 3, 1, 1>>),
                               Word(<<"c">>, 0, 2, <<1, 4, 3, 2>>)>>),
     Page(<<>>, <<"c">>, <<Word(<<"b">>, 40, 1, <<5, 3, 1, 1>>)>>),
     Page(<<>>, <<SP>>, <<Word(<<"a">>, 90, 1, <<0, 0, 2, 1>>)>>),
     Page(<<>>, <<"d">>, <<>>)}

\* pages with embedded text: blank, and of 24, 50 and 51 characters
NativePages ==
    {Page(<<SP>>, <<"a">>, <<Word(<<"a">>, 90, 1, <<0, 0, 2, 1>>)>>)}
    \cup {Page(Rep("x", n) \o <<NL>>, <<"a">>, <<Word(<<"a">>, 90, 1, <<0, 0, 2, 1>>)>>) :
             n \in {24, 50, 51}}

\* PDFs: short ones of any pages, and long ones around the page limit
PdfDocs(n, over) ==
    (SeqsUpTo(ScannedPages \cup NativePages, n) \ {<<>>})
    \cup {Rep(p, MAX_PDF_PAGES + d) :
             p \in {Page(<<>>, <<"a">>, <<Word(<<"a">>, 90, 1, <<0, 0, 2, 1>>)>>),
                    Page(<<>>, <<SP>>, <<>>)},
             d \in 0..over}

\* the images extract_from_numpy is given, by what Tesseract reads from them
NumpyImages(n) ==
    {Page(<<>>, text, data) : text \in {<<>>, <<SP, "a", NL>>}, data \in SeqsUpTo(WordPool, n)}

RECURSIVE StrippedNonEmpty(_)
\* [t.strip() for t in texts if t.strip()]
StrippedNonEmpty(texts) ==
    IF texts = <<>> THEN <<>>
    ELSE IF Len(texts) = 1
         THEN (IF Strip(texts[1]) = <<>> THEN <<>> ELSE <<Strip(texts[1])>>)
    ELSE LET mid == Len(texts) \div 2
         IN  StrippedNonEmpty(SubSeq(texts, 1, mid))
                 \o StrippedNonEmpty(SubSeq(texts, mid + 1, Len(texts)))

\* PDFHandler.extract_text_native, past _validate_pdf
ExtractTextNative(doc) ==
    LET all_text == StrippedNonEmpty([i \in DOMAIN doc |-> doc[i].native])
    IN  IF all_text = <<>> THEN NoText ELSE JoinWith(all_text, <<NL, NL>>)

\* IsNative from 50 characters on
IsNativeFromFifty(native_text) ==
    native_text # NoText /\ native_text # <<>> /\ Len(Strip(native_text)) >= 50

\* native_text and len(native_text.strip()) > 50
IsNative(native_text) ==
    native_text # NoText /\ native_text # <<>> /\ Len(Strip(native_text)) > 50

\* PDFHandler._validate_pdf: the exception it raises, or None
ValidatePdf(file) ==
    IF ~file.exists THEN "FileNotFoundError"
    ELSE IF ~file.suffix_ok THEN "ValueError"
    ELSE IF file.size > MAX_PDF_SIZE_MB * MB THEN "ValueError"
    ELSE None

OCRResult(text, confidence, page_count, blocks, warnings) ==
    [text |-> text, confidence |-> confidence, page_count |-> page_count,
     blocks |-> blocks, warnings |-> warnings]

\* the locals of extract_from_pdf before its loop
NoOcrFrame ==
    [warnings |-> <<>>, page_images |-> <<>>, page_num |-> 0, all_text |-> <<>>,
     all_blocks |-> <<>>, total_confidence |-> Fraction(0, 1), pages_with_text |-> 0]

InitOcr ==
    /\ o_pc = "start"
    /\ \/ /\ o_entry = "extract_from_pdf"
          /\ o_file \in [exists : BOOLEAN, suffix_ok : BOOLEAN,
                         size : {1, MAX_PDF_SIZE_MB * MB, MAX_PDF_SIZE_MB * MB + 1}]
          /\ o_doc \in PdfDocs(MaxPdfPages, MaxOverPages)
       \/ /\ o_entry = "extract_from_numpy"
          /\ o_file = [exists |-> FALSE, suffix_ok |-> FALSE, size |-> 0]
          /\ \E image \in NumpyImages(MaxWords) : o_doc = <<image>>
    /\ o_steps = <<>>
    /\ o_log = <<>>
    /\ o_frame = NoOcrFrame
    /\ o_error = None
    /\ o_result = None

RestOcr ==
    /\ o_pc = "rest" /\ o_entry = None
    /\ o_file = [exists |-> FALSE, suffix_ok |-> FALSE, size |-> 0]
    /\ o_doc = <<>> /\ o_steps = <<>> /\ o_log = <<>> /\ o_frame = NoOcrFrame
    /\ o_error = None /\ o_result = None

\* extract_from_pdf: pdf_handler.extract_text_native raises in _validate_pdf
PdfInvalid ==
    /\ o_pc = "start" /\ o_entry = "extract_from_pdf"
    /\ ValidatePdf(o_file) # None
    /\ o_steps' = Append(o_steps, "extract_text_native")
    /\ o_error' = ValidatePdf(o_file)
    /\ o_pc' = "raised"
    /\ UNCHANGED <<o_entry, o_file, o_doc, o_log, o_frame, o_result>>
    /\ FrameOcr

\* extract_from_pdf: native_text = self.pdf_handler.extract_text_native(pdf_path)
\* and the test on it; on the scanned side the first warning is appended
PdfExtractNative ==
    /\ o_pc = "start" /\ o_entry = "extract_from_pdf"
    /\ ValidatePdf(o_file) = None
    /\ o_steps' = Append(o_steps, "extract_text_native")
    /\ IF IsNative(ExtractTextNative(o_doc))
       THEN o_pc' = "native" /\ o_frame' = o_frame
       ELSE /\ o_pc' = "rasterize"
            /\ o_frame' = [o_frame EXCEPT !.warnings = Append(@, "PDF escaneado detectado")]
    /\ UNCHANGED <<o_entry, o_file, o_doc, o_log, o_error, o_result>>
    /\ FrameOcr

\* extract_from_pdf, the native branch: get_page_count and the return
PdfReturnNative ==
    /\ o_pc = "native"
    /\ o_steps' = Append(o_steps, "get_page_count")
    /\ LET native_text == ExtractTextNative(o_doc)
       IN  o_result' = OCRResult(native_text, Fraction(99, 1), Len(o_doc),
                                 <<[text |-> native_text, confidence |-> Fraction(99, 1),
                                    bbox |-> <<0, 0, 0, 0>>, page |-> 0,
                                    block_type |-> "paragraph"]>>,
                                 <<>>)
    /\ o_pc' = "returned"
    /\ UNCHANGED <<o_entry, o_file, o_doc, o_log, o_frame, o_error>>
    /\ FrameOcr

\* PDFHandler.pdf_to_images: the pages below MAX_PDF_PAGES are rendered, and
\* the logger is warned when a page is left
PdfToImages ==
    /\ o_pc = "rasterize"
    /\ o_steps' = Append(o_steps, "pdf_to_images")
    /\ o_frame' = [o_frame EXCEPT !.page_images =
                      SubSeq(o_doc, 1, IF Len(o_doc) > MAX_PDF_PAGES
                                       THEN MAX_PDF_PAGES ELSE Len(o_doc))]
    /\ o_log' = IF Len(o_doc) > MAX_PDF_PAGES
                THEN Append(o_log, "pdf_page_limit_reached") ELSE o_log
    /\ o_pc' = "ocr"
    /\ UNCHANGED <<o_entry, o_file, o_doc, o_error, o_result>>
    /\ FrameOcr

\* OcrPage counting the pages without text as well
OcrPageCountingBlank(frame, page) ==
    LET built == BuildBlocksFromData(page.data, frame.page_num)
        text == Strip(page.text)
    IN  [frame EXCEPT
            !.all_text = IF text # <<>> THEN Append(@, text) ELSE @,
            !.all_blocks = IF text # <<>> THEN @ \o built.blocks ELSE @,
            !.total_confidence = IF text # <<>> THEN FracAdd(@, built.confidence) ELSE @,
            !.pages_with_text = @ + 1,
            !.page_num = @ + 1]

\* extract_from_pdf, the body of the loop over page_images, on the locals
OcrPage(frame, page) ==
    LET built == BuildBlocksFromData(page.data, frame.page_num)
        text == Strip(page.text)
    IN  IF text # <<>>
        THEN [frame EXCEPT
                 !.all_text = Append(@, text),
                 !.all_blocks = @ \o built.blocks,
                 !.total_confidence = FracAdd(@, built.confidence),
                 !.pages_with_text = @ + 1,
                 !.page_num = @ + 1]
        ELSE [frame EXCEPT !.page_num = @ + 1]

\* extract_from_pdf, one turn of the loop over page_images
PdfOcrPage ==
    /\ o_pc = "ocr"
    /\ o_frame.page_num < Len(o_frame.page_images)
    /\ o_frame' = OcrPage(o_frame, o_frame.page_images[o_frame.page_num + 1])
    /\ o_steps' = o_steps \o <<"preprocess", "image_to_string", "image_to_data">>
    /\ UNCHANGED <<o_pc, o_entry, o_file, o_doc, o_log, o_error, o_result>>
    /\ FrameOcr

\* extract_from_pdf, past the loop: the combined text, the average, the
\* warning, the return
PdfReturnScanned ==
    /\ o_pc = "ocr"
    /\ o_frame.page_num = Len(o_frame.page_images)
    /\ LET avg_confidence ==
               Fraction(o_frame.total_confidence.num,
                        o_frame.total_confidence.den
                            * (IF o_frame.pages_with_text > 1
                               THEN o_frame.pages_with_text ELSE 1))
           warnings == o_frame.warnings
                       \o (IF FracLess(avg_confidence, Fraction(50, 1))
                           THEN <<"Confianza baja">> ELSE <<>>)
       IN  /\ o_result' = OCRResult(JoinWith(o_frame.all_text, <<NL, NL>>), avg_confidence,
                                    Len(o_frame.page_images), o_frame.all_blocks, warnings)
           /\ o_frame' = [o_frame EXCEPT !.warnings = warnings]
    /\ o_pc' = "returned"
    /\ UNCHANGED <<o_entry, o_file, o_doc, o_steps, o_log, o_error>>
    /\ FrameOcr

\* extract_from_numpy
NumpyOcr ==
    /\ o_pc = "start" /\ o_entry = "extract_from_numpy"
    /\ o_steps' = <<"preprocess", "image_to_string", "image_to_data">>
    /\ LET built == BuildBlocksFromData(o_doc[1].data, 0)
           warnings == IF FracLess(built.confidence, Fraction(50, 1))
                       THEN <<"Confianza baja">> ELSE <<>>
       IN  o_result' = OCRResult(Strip(o_doc[1].text), built.confidence, 1,
                                 built.blocks, warnings)
    /\ o_pc' = "returned"
    /\ UNCHANGED <<o_entry, o_file, o_doc, o_log, o_frame, o_error>>
    /\ FrameOcr

NextOcr ==
    \/ PdfInvalid
    \/ PdfExtractNative
    \/ PdfReturnNative
    \/ PdfToImages
    \/ PdfOcrPage
    \/ PdfReturnScanned
    \/ NumpyOcr

(***************************************************************************)
(* ImagePreprocessor: resize_if_needed, deskew, _order_points              *)
(*                                                                         *)
(* An image is its width and height.  A line found by HoughLinesP is       *)
(* (x1, y1, x2, y2) in integer pixels.  The angle of a line is kept by its *)
(* tangent dy/dx, the median of an even number of angles as the tangent of *)
(* the sum of the two middle ones, and angles are compared through their   *)
(* tangents: no arc-tangent is rounded.                                    *)
(***************************************************************************)
MaxSide == 12
MaxLines == 3
MaxCoord == 2

MAX_DIMENSION == 3000

Image(w, h) == [width |-> w, height |-> h]

NoImage == Image(0, 0)

\* no rotation was applied
NoAngle == [half |-> FALSE, num |-> 0, den |-> 0]

Returned(image, same, angle, points) ==
    [error |-> None, image |-> image, same |-> same, angle |-> angle, points |-> points]

Raised(error) ==
    [error |-> error, image |-> NoImage, same |-> FALSE, angle |-> NoAngle, points |-> <<>>]

\* resize_if_needed: int() of width * (max_dim / max_current), the product
\* taken exactly
ResizeIfNeeded(image, max_dim) ==
    LET limit == IF max_dim = 0 THEN MAX_DIMENSION ELSE max_dim
        max_current == IF image.height > image.width THEN image.height ELSE image.width
        new_width == (image.width * limit) \div max_current
        new_height == (image.height * limit) \div max_current
    IN  IF max_current <= limit THEN Returned(image, TRUE, NoAngle, <<>>)
        ELSE IF new_width = 0 \/ new_height = 0 THEN Raised("cv2.error")
        ELSE Returned(Image(new_width, new_height), FALSE, NoAngle, <<>>)

DX(line) == line[3] - line[1]
DY(line) == line[4] - line[2]

\* abs(degrees(arctan2(dy, dx))) < 15: tan 15 is 2 - sqrt(3), so for dx > 0
\* the test is sqrt(3) * dx < 2 * dx - |dy|
NearHorizontal(line) ==
    LET dx == DX(line)
        rest == 2 * dx - Abs(DY(line))
    IN  dx > 0 /\ rest > 0 /\ 3 * dx * dx < rest * rest

\* the loop of deskew over the lines: the tangents (dy, dx) of the angles
\* it keeps, in the order of the lines
RECURSIVE CandidateAngles(_)
CandidateAngles(lines) ==
    IF lines = <<>> THEN <<>>
    ELSE LET line == Head(lines)
             rest == CandidateAngles(Tail(lines))
         IN  IF Abs(DX(line)) < 1 THEN rest
             ELSE IF NearHorizontal(line) THEN <<<<DY(line), DX(line)>>>> \o rest
             ELSE rest

TanLess(a, b) == a[1] * b[2] < b[1] * a[2]

RECURSIVE InsertAngle(_, _)
InsertAngle(a, sorted) ==
    IF sorted = <<>> THEN <<a>>
    ELSE IF TanLess(a, Head(sorted)) THEN <<a>> \o sorted
    ELSE <<Head(sorted)>> \o InsertAngle(a, Tail(sorted))

RECURSIVE SortAngles(_)
SortAngles(angles) ==
    IF angles = <<>> THEN <<>> ELSE InsertAngle(Head(angles), SortAngles(Tail(angles)))

\* np.median: the middle angle, or half the sum of the two middle angles,
\* whose tangent is (t1 + t2) / (1 - t1 * t2)
Median(angles) ==
    LET sorted == SortAngles(angles)
        n == Len(sorted)
        lo == sorted[n \div 2]
        hi == sorted[n \div 2 + 1]
    IN  IF n % 2 = 1 THEN [half |-> FALSE, num |-> hi[1], den |-> hi[2]]
        ELSE [half |-> TRUE, num |-> lo[1] * hi[2] + hi[1] * lo[2],
              den |-> lo[2] * hi[2] - lo[1] * hi[1]]

\* the test of deskew with one degree for half a degree
BelowOneDegree(median) ==
    IF median.half THEN Abs(median.num) * 100000 <= 3492 * median.den
    ELSE Abs(median.num) * 100000 <= 1745 * median.den

\* abs(median_angle) < 0.5: tan 0.5 = 0.0087268..., tan 1 = 0.0174550...;
\* no ratio of two pixel differences of the lines below lies within
\* 10^-5 of either
BelowHalfDegree(median) ==
    IF median.half THEN Abs(median.num) * 100000 <= 1745 * median.den
    ELSE Abs(median.num) * 100000 <= 872 * median.den

\* deskew
Deskew(image, lines) ==
    LET angles == CandidateAngles(lines)
    IN  IF lines = <<>> THEN Returned(image, TRUE, NoAngle, <<>>)
        ELSE IF angles = <<>> THEN Returned(image, TRUE, NoAngle, <<>>)
        ELSE IF BelowHalfDegree(Median(angles)) THEN Returned(image, TRUE, NoAngle, <<>>)
        ELSE Returned(Image(image.width, image.height), FALSE, Median(angles), <<>>)

\* np.argmin / np.argmax: the first index of the least / greatest value
ArgMinIndex(values) ==
    CHOOSE i \in DOMAIN values :
        /\ \A j \in DOMAIN values : values[i] <= values[j]
        /\ \A j \in 1..(i - 1) : values[j] > values[i]

ArgMaxIndex(values) ==
    CHOOSE i \in DOMAIN values :
        /\ \A j \in DOMAIN values : values[i] >= values[j]
        /\ \A j \in 1..(i - 1) : values[j] < values[i]

\* _order_points
OrderPoints(points) ==
    LET s == [i \in DOMAIN points |-> points[i][1] + points[i][2]]
        d == [i \in DOMAIN points |-> points[i][2] - points[i][1]]
    IN  <<points[ArgMinIndex(s)], points[ArgMinIndex(d)],
          points[ArgMaxIndex(s)], points[ArgMaxIndex(d)]>>

\* images up to n pixels a side
Images(n) == {Image(w, h) : w \in 1..n, h \in 1..n}

\* max_dim arguments; 0 stands for None too, "max_dim or ..." treats both alike
MaxDims == {0, 4, 6}

\* lines in an image 200 wide: level, 0.29, 0.57, -0.57, 1.72, 14.6 and 15.1
\* degrees, one upright and one running leftwards
LinePool ==
    {<<0, 10, 200, 10>>, <<0, 10, 200, 11>>, <<0, 10, 200, 12>>, <<0, 20, 200, 18>>,
     <<0, 10, 100, 13>>, <<0, 0, 100, 26>>, <<0, 0, 100, 27>>, <<50, 0, 50, 100>>,
     <<200, 10, 0, 10>>}

RECURSIVE LineLists(_)
LineLists(n) ==
    IF n = 0 THEN {<<>>}
    ELSE LET shorter == LineLists(n - 1)
         IN  shorter \cup {Append(l, x) : l \in shorter, x \in LinePool}

\* four distinct corners with coordinates on a grid of MaxCoord steps
Corners(n) == {<<5 * x, 5 * y>> : x \in 0..n, y \in 0..n}

FourPoints(n) ==
    {<<a, b, c, d>> : a \in Corners(n), b \in Corners(n), c \in Corners(n), d \in Corners(n)}

InitPre ==
    /\ q_op = "new" /\ q_image = NoImage /\ q_lines = <<>> /\ q_max_dim = 0
    /\ q_points = <<>> /\ q_out = Raised(None)

RestPre ==
    /\ q_op = "rest" /\ q_image = NoImage /\ q_lines = <<>> /\ q_max_dim = 0
    /\ q_points = <<>> /\ q_out = Raised(None)

CallResize ==
    /\ q_op = "new"
    /\ \E image \in Images(MaxSide), max_dim \in MaxDims :
          /\ q_image' = image
          /\ q_max_dim' = max_dim
          /\ q_out' = ResizeIfNeeded(image, max_dim)
    /\ q_op' = "resize_if_needed"
    /\ q_lines' = <<>> /\ q_points' = <<>>
    /\ FramePre

CallDeskew ==
    /\ q_op = "new"
    /\ \E image \in {Image(200, 100), Image(200, 300)}, lines \in LineLists(MaxLines) :
          /\ q_image' = image
          /\ q_lines' = lines
          /\ q_out' = Deskew(image, lines)
    /\ q_op' = "deskew"
    /\ q_max_dim' = 0 /\ q_points' = <<>>
    /\ FramePre

CallOrderPoints ==
    /\ q_op = "new"
    /\ \E points \in FourPoints(MaxCoord) :
          /\ Cardinality({points[i] : i \in 1..4}) = 4
          /\ q_points' = points
          /\ q_out' = Returned(NoImage, FALSE, NoAngle, OrderPoints(points))
    /\ q_op' = "_order_points"
    /\ q_image' = NoImage /\ q_lines' = <<>> /\ q_max_dim' = 0
    /\ FramePre

NextPre == CallResize \/ CallDeskew \/ CallOrderPoints

(***************************************************************************)
(* ModelRegistry                                                           *)
(*                                                                         *)
(* A version is a string, kept as the sequence of its characters; a        *)
(* registry key "name:version" is the pair (name, version).                *)
(***************************************************************************)
MaxRegistered == 3

ModelNames == {"classifier", "ner"}

\* "1.0.0", "1.9.0", "1.10.0", "2.0.0"
VersionPool ==
    {<<"1", ".", "0", ".", "0">>, <<"1", ".", "9", ".", "0">>,
     <<"1", ".", "1", "0", ".", "0">>, <<"2", ".", "0", ".", "0">>}

\* version=None
NoVersion == <<>>

\* the code point order of the characters of a version
CharRank(c) ==
    CASE c = "." -> 0 [] c = "0" -> 1 [] c = "1" -> 2 [] c = "2" -> 3 [] c = "3" -> 4
      [] c = "4" -> 5 [] c = "5" -> 6 [] c = "6" -> 7 [] c = "7" -> 8 [] c = "8" -> 9
      [] c = "9" -> 10

RECURSIVE StrLess(_, _)
\* a < b on Python strings
StrLess(a, b) ==
    IF b = <<>> THEN FALSE
    ELSE IF a = <<>> THEN TRUE
    ELSE IF Head(a) = Head(b) THEN StrLess(Tail(a), Tail(b))
    ELSE CharRank(Head(a)) < CharRank(Head(b))

\* list_versions(name), as the set it sorts
ListVersions(registry, name) == {key[2] : key \in {k \in registry : k[1] = name}}

\* sorted(versions)[-1]
LastSorted(versions) == CHOOSE v \in versions : \A w \in versions : ~StrLess(v, w)

\* _get_latest_version; NoVersion stands for the KeyError
GetLatestVersion(registry, name) ==
    IF ListVersions(registry, name) = {} THEN NoVersion
    ELSE LastSorted(ListVersions(registry, name))

RegistryOutcome(op, name, version, error, key) ==
    [op |-> op, name |-> name, version |-> version, error |-> error, key |-> key]

NoKey == <<None, NoVersion>>

InitReg ==
    /\ r_registry = {} /\ r_loaded = {} /\ r_steps = 0
    /\ r_out = RegistryOutcome("new", None, NoVersion, None, NoKey)

RestReg ==
    /\ r_registry = {} /\ r_loaded = {} /\ r_steps = MaxRegistered
    /\ r_out = RegistryOutcome("rest", None, NoVersion, None, NoKey)

\* register(name, version, ...)
Register ==
    /\ r_out.op # "rest"
    /\ r_steps < MaxRegistered
    /\ \E name \in ModelNames, version \in VersionPool :
          r_registry' = r_registry \cup {<<name, version>>}
    /\ r_steps' = r_steps + 1
    /\ UNCHANGED <<r_loaded, r_out>>
    /\ FrameReg

\* get_info(name, version)
RegistryGetInfo ==
    /\ r_out.op # "rest"
    /\ \E name \in ModelNames, given \in VersionPool \cup {NoVersion} :
          LET version == IF given = NoVersion THEN GetLatestVersion(r_registry, name) ELSE given
              key == <<name, version>>
          IN  r_out' = IF version = NoVersion \/ key \notin r_registry
                       THEN RegistryOutcome("get_info", name, given, "KeyError", NoKey)
                       ELSE RegistryOutcome("get_info", name, given, None, key)
    /\ UNCHANGED <<r_registry, r_loaded, r_steps>>
    /\ FrameReg

\* load_model(name, version); the file of the model is there or not
RegistryLoadModel ==
    /\ r_out.op # "rest"
    /\ \E name \in ModelNames, given \in VersionPool \cup {NoVersion}, path_exists \in BOOLEAN :
          LET version == IF given = NoVersion THEN GetLatestVersion(r_registry, name) ELSE given
              key == <<name, version>>
          IN  IF version = NoVersion
              THEN /\ r_out' = RegistryOutcome("load_model", name, given, "KeyError", NoKey)
                   /\ r_loaded' = r_loaded
              ELSE IF key \in r_loaded
              THEN /\ r_out' = RegistryOutcome("load_model", name, given, None, key)
                   /\ r_loaded' = r_loaded
              ELSE IF key \notin r_registry
              THEN /\ r_out' = RegistryOutcome("load_model", name, given, "KeyError", NoKey)
                   /\ r_loaded' = r_loaded
              ELSE IF ~path_exists
              THEN /\ r_out' = RegistryOutcome("load_model", name, given, "FileNotFoundError", NoKey)
                   /\ r_loaded' = r_loaded
              ELSE /\ r_out' = RegistryOutcome("load_model", name, given, None, key)
                   /\ r_loaded' = r_loaded \cup {key}
    /\ UNCHANGED <<r_registry, r_steps>>
    /\ FrameReg

NextReg == Register \/ RegistryGetInfo \/ RegistryLoadModel

(***************************************************************************)
(* TextCleaner.segment_document_sections                                   *)
(*                                                                         *)
(* A line is given by what it holds: the pattern of a section, other text, *)
(* or nothing.  The content of a section is kept as the positions of its   *)
(* lines in the input.                                                     *)
(***************************************************************************)
MaxSegLines == 4

LineKinds == {"text", "blank", "encabezado", "datos_paciente", "diagnostico"}

RECURSIVE LineSeqs(_)
\* the texts of 1 .. n lines
LineSeqs(n) ==
    IF n = 1 THEN {<<k>> : k \in LineKinds}
    ELSE LET shorter == LineSeqs(n - 1)
         IN  shorter \cup {Append(l, k) : l \in shorter, k \in LineKinds}

\* _detect_section
DetectSection(line) == IF line \in {"text", "blank"} THEN None ELSE line

RECURSIVE StripContent(_, _)
\* "\n".join(current_content).strip(), on positions: the blank lines at both
\* ends go
StripContent(content, lines) ==
    IF content = <<>> THEN <<>>
    ELSE IF lines[Head(content)] = "blank" THEN StripContent(Tail(content), lines)
    ELSE IF lines[content[Len(content)]] = "blank"
         THEN StripContent(SubSeq(content, 1, Len(content) - 1), lines)
    ELSE content

\* sections[name] = content
SetSection(sections, name, content) ==
    [s \in DOMAIN sections \cup {name} |-> IF s = name THEN content ELSE sections[s]]

\* the flush of the loop and of the end: only with a section and lines
Flush(sections, section, content, lines) ==
    IF section # None /\ content # <<>>
    THEN SetSection(sections, section, StripContent(content, lines))
    ELSE sections

NoSections == [s \in {} |-> <<>>]

InitSeg ==
    /\ g_pc = "loop"
    /\ g_lines \in LineSeqs(MaxSegLines)
    /\ g_pos = 1
    /\ g_current_section = None
    /\ g_current_content = <<>>
    /\ g_sections = NoSections

RestSeg ==
    /\ g_pc = "rest" /\ g_lines = <<>> /\ g_pos = 1 /\ g_current_section = None
    /\ g_current_content = <<>> /\ g_sections = NoSections

SegAdvance ==
    /\ g_pos' = g_pos + 1
    /\ g_pc' = IF g_pos = Len(g_lines) THEN "flush" ELSE "loop"
    /\ UNCHANGED g_lines
    /\ FrameSeg

\* the line starts another section than the current one
SegStartSection ==
    /\ g_pc = "loop"
    /\ DetectSection(g_lines[g_pos]) # None
    /\ DetectSection(g_lines[g_pos]) # g_current_section
    /\ g_sections' = Flush(g_sections, g_current_section, g_current_content, g_lines)
    /\ g_current_section' = DetectSection(g_lines[g_pos])
    /\ g_current_content' = <<g_pos>>
    /\ SegAdvance

\* the line goes on with the current section
SegAppendLine ==
    /\ g_pc = "loop"
    /\ ~(DetectSection(g_lines[g_pos]) # None
            /\ DetectSection(g_lines[g_pos]) # g_current_section)
    /\ g_current_section # None
    /\ g_current_content' = Append(g_current_content, g_pos)
    /\ UNCHANGED <<g_current_section, g_sections>>
    /\ SegAdvance

\* a line before any section
SegOpenHeader ==
    /\ g_pc = "loop"
    /\ DetectSection(g_lines[g_pos]) = None
    /\ g_current_section = None
    /\ g_current_content' = Append(g_current_content, g_pos)
    /\ g_current_section' = "encabezado"
    /\ UNCHANGED g_sections
    /\ SegAdvance

\* after the loop
SegReturn ==
    /\ g_pc = "flush"
    /\ g_sections' = Flush(g_sections, g_current_section, g_current_content, g_lines)
    /\ g_pc' = "done"
    /\ UNCHANGED <<g_lines, g_pos, g_current_section, g_current_content>>
    /\ FrameSeg

NextSeg == SegStartSection \/ SegAppendLine \/ SegOpenHeader \/ SegReturn

(***************************************************************************)
(* DocumentService.upload_and_process                                      *)
(*                                                                         *)
(* The repository works on one AsyncSession.  A statement of the session   *)
(* can fail; a flush that fails rolls the transaction of the session back  *)
(* and leaves the session inactive: every later statement or flush on it   *)
(* raises (PendingRollbackError) until rollback() is called, which         *)
(* upload_and_process never does.                                          *)
(***************************************************************************)
MaxUploadEntities == 2

UploadSuffixes == {".pdf", ".jpg", ".png"}

NoDocument == [document_type |-> None, processing_status |-> None]

\* a session that a failed flush leaves usable
FlushErrorKeepsSession == "active"

\* await self._session.flush() raising: the state it leaves the session in
SessionAfterFlushError == "inactive"

InitUpload ==
    /\ u_pc = "create"
    /\ u_session = "active"
    /\ u_ext \in UploadSuffixes
    /\ u_text_blank = TRUE
    /\ u_entities = 0
    /\ u_document = NoDocument
    /\ u_history = <<>>
    /\ u_stored = 0

RestUpload ==
    /\ u_pc = "rest" /\ u_session = "active" /\ u_ext = None /\ u_text_blank = TRUE
    /\ u_entities = 0 /\ u_document = NoDocument /\ u_history = <<>> /\ u_stored = 0

\* DocumentRepository.create, called outside the try: the flush inserts the
\* row or fails, and then upload_and_process raises
CreateDocument ==
    /\ u_pc = "create"
    /\ \/ /\ u_document' = [document_type |-> "pending", processing_status |-> "processing"]
          /\ u_history' = <<"processing">>
          /\ u_pc' = "ocr"
          /\ UNCHANGED u_session
       \/ /\ u_session' = SessionAfterFlushError
          /\ u_pc' = "raised"
          /\ UNCHANGED <<u_document, u_history>>
    /\ UNCHANGED <<u_ext, u_text_blank, u_entities, u_stored>>
    /\ FrameUpload

\* _process_document, steps 1 to 3: _run_ocr, _classify_document and
\* _extract_entities catch every exception of theirs
RunOcrAndNlp ==
    /\ u_pc = "ocr"
    /\ \E blank \in BOOLEAN, n \in 0..MaxUploadEntities :
          /\ blank => n = 0
          /\ u_text_blank' = blank
          /\ u_entities' = n
    /\ u_pc' = "store"
    /\ UNCHANGED <<u_session, u_ext, u_document, u_history, u_stored>>
    /\ FrameUpload

\* update_processing_result(document_id, ..., status) on the session: the
\* select of get_by_id, the assignments, the flush
UpdateProcessingResult(doc_type, status, ok_pc, failed_pc) ==
    \/ /\ u_session = "inactive"
       /\ u_pc' = failed_pc
       /\ UNCHANGED <<u_session, u_document, u_history>>
    \/ /\ u_session = "active"
       /\ \/ /\ u_pc' = failed_pc
             /\ UNCHANGED <<u_session, u_document, u_history>>
          \/ /\ u_document' = [document_type |-> IF doc_type = None THEN u_document.document_type
                                                 ELSE doc_type,
                               processing_status |-> status]
             /\ u_history' = Append(u_history, status)
             /\ \/ u_pc' = ok_pc /\ UNCHANGED u_session
                \/ u_pc' = failed_pc /\ u_session' = SessionAfterFlushError

\* _process_document, step 4: store the results as completed
StoreResults ==
    /\ u_pc = "store"
    /\ \E doc_type \in IF u_text_blank THEN {"otro"} ELSE {"receta", "otro"} :
          UpdateProcessingResult(doc_type, "completed",
                                 IF u_entities > 0 THEN "entities" ELSE "return", "handler")
    /\ UNCHANGED <<u_ext, u_text_blank, u_entities, u_stored>>
    /\ FrameUpload

\* add_entities: the rows are added and flushed, or the flush fails
AddEntities ==
    /\ u_pc = "entities"
    /\ \/ /\ u_session = "active"
          /\ u_stored' = u_entities
          /\ u_pc' = "return"
          /\ UNCHANGED u_session
       \/ /\ u_session' = SessionAfterFlushError
          /\ u_pc' = "handler"
          /\ UNCHANGED u_stored
    /\ UNCHANGED <<u_ext, u_text_blank, u_entities, u_document, u_history>>
    /\ FrameUpload

\* except Exception: log, and write the failed status
HandleFailure ==
    /\ u_pc = "handler"
    /\ UpdateProcessingResult(None, "failed", "return", "raised")
    /\ UNCHANGED <<u_ext, u_text_blank, u_entities, u_stored>>
    /\ FrameUpload

\* return document.id
ReturnId ==
    /\ u_pc = "return"
    /\ u_pc' = "returned"
    /\ UNCHANGED <<u_session, u_ext, u_text_blank, u_entities, u_document, u_history, u_stored>>
    /\ FrameUpload

NextUpload ==
    CreateDocument \/ RunOcrAndNlp \/ StoreResults \/ AddEntities \/ HandleFailure \/ ReturnId

(***************************************************************************)
(* RateLimitMiddleware                                                     *)
(*                                                                         *)
(* The clock moves in ticks and several requests can see the same time.    *)
(* dispatch has no await between reading and writing _requests, so one     *)
(* request is one step.                                                    *)
(***************************************************************************)
\* max_requests and window_seconds of the middleware, scaled down
RateMaxRequests == 2
RateWindow == 3
MaxClock == 4
MaxDispatches == 4

Clients == {"10.0.0.1", "10.0.0.2"}

RequestPaths == {"/health", "/api/v1/upload"}

EXEMPT_PATHS == {"/health", "/docs", "/redoc", "/openapi.json"}

\* the cleaning of dispatch with a window one tick shorter
RecentShortWindow(times, now) ==
    SelectSeq(times, LAMBDA t : now - t < RateWindow - 1)

\* [t for t in self._requests[client_ip] if now - t < self._window]
Recent(times, now) ==
    SelectSeq(times, LAMBDA t : now - t < RateWindow)

Dispatched(client, path, time, status) ==
    [client |-> client, path |-> path, time |-> time, status |-> status]

InitRate ==
    /\ t_now = 0
    /\ t_requests = [c \in Clients |-> <<>>]
    /\ t_log = <<>>

RestRate ==
    /\ t_now = MaxClock /\ t_requests = [c \in Clients |-> <<>>] /\ t_log = <<>>

\* time passes
Tick ==
    /\ t_now < MaxClock
    /\ t_now' = t_now + 1
    /\ UNCHANGED <<t_requests, t_log>>
    /\ FrameRate

\* dispatch of a request to an exempt path
DispatchExempt ==
    /\ Len(t_log) < MaxDispatches
    /\ \E client \in Clients, path \in RequestPaths \cap EXEMPT_PATHS :
          t_log' = Append(t_log, Dispatched(client, path, t_now, 200))
    /\ UNCHANGED <<t_now, t_requests>>
    /\ FrameRate

\* dispatch of any other request: clean, then reject or record and forward
DispatchLimited ==
    /\ Len(t_log) < MaxDispatches
    /\ \E client \in Clients, path \in RequestPaths \ EXEMPT_PATHS :
          LET kept == Recent(t_requests[client], t_now)
          IN  IF Len(kept) >= RateMaxRequests
              THEN /\ t_requests' = [t_requests EXCEPT ![client] = kept]
                   /\ t_log' = Append(t_log, Dispatched(client, path, t_now, 429))
              ELSE /\ t_requests' = [t_requests EXCEPT ![client] = Append(kept, t_now)]
                   /\ t_log' = Append(t_log, Dispatched(client, path, t_now, 200))
    /\ UNCHANGED t_now
    /\ FrameRate

NextRate == Tick \/ DispatchExempt \/ DispatchLimited

(***************************************************************************)
(* Specifications                                                          *)
(***************************************************************************)
InitSpecClean == InitClean /\ RestNer /\ RestLink /\ RestPipe /\ RestImage /\ RestStruct /\ RestOcr /\ RestClf /\ RestPre /\ RestReg /\ RestSeg /\ RestUpload /\ RestRate
SpecClean == InitSpecClean /\ [][NextClean]_vars

InitSpecNer == InitNer /\ RestClean /\ RestLink /\ RestPipe /\ RestImage /\ RestStruct /\ RestOcr /\ RestClf /\ RestPre /\ RestReg /\ RestSeg /\ RestUpload /\ RestRate
SpecNer == InitSpecNer /\ [][NextNer]_vars

InitSpecLink == InitLink /\ RestClean /\ RestNer /\ RestPipe /\ RestImage /\ RestStruct /\ RestOcr /\ RestClf /\ RestPre /\ RestReg /\ RestSeg /\ RestUpload /\ RestRate
SpecLink == InitSpecLink /\ [][NextLink]_vars
SpecLinkOne == InitSpecLink /\ [][NextLinkOne]_vars

\* one caller, every request
Init ==
    /\ p_threads = {"t1"}
    /\ p_workload = "any"
    /\ InitPipe
    /\ RestClean /\ RestNer /\ RestLink /\ RestImage /\ RestStruct /\ RestOcr /\ RestClf /\ RestPre /\ RestReg /\ RestSeg /\ RestUpload /\ RestRate
Next == NextPipe
Spec == Init /\ [][Next]_vars

\* two callers submitting untyped one-word documents
InitSpecShared ==
    /\ p_threads = Threads
    /\ p_workload = "untyped words"
    /\ InitPipe
    /\ RestClean /\ RestNer /\ RestLink /\ RestImage /\ RestStruct /\ RestOcr /\ RestClf /\ RestPre /\ RestReg /\ RestSeg /\ RestUpload /\ RestRate
SpecShared == InitSpecShared /\ [][NextPipe]_vars

InitSpecImage == InitImage /\ RestClean /\ RestNer /\ RestLink /\ RestPipe /\ RestStruct /\ RestOcr /\ RestClf /\ RestPre /\ RestReg /\ RestSeg /\ RestUpload /\ RestRate
SpecImage == InitSpecImage /\ [][NextImage]_vars

InitSpecStruct == InitStruct /\ RestClean /\ RestNer /\ RestLink /\ RestPipe /\ RestImage /\ RestOcr /\ RestClf /\ RestPre /\ RestReg /\ RestSeg /\ RestUpload /\ RestRate
SpecStruct == InitSpecStruct /\ [][NextStruct]_vars

InitSpecClf == InitClf /\ RestClean /\ RestNer /\ RestLink /\ RestPipe /\ RestImage /\ RestStruct /\ RestOcr /\ RestPre /\ RestReg /\ RestSeg /\ RestUpload /\ RestRate
SpecClf == InitSpecClf /\ [][NextClf]_vars

InitSpecPre == InitPre /\ RestClean /\ RestNer /\ RestLink /\ RestPipe /\ RestImage /\ RestStruct /\ RestOcr /\ RestClf /\ RestReg /\ RestSeg /\ RestUpload /\ RestRate
SpecPre == InitSpecPre /\ [][NextPre]_vars

InitSpecReg == InitReg /\ RestClean /\ RestNer /\ RestLink /\ RestPipe /\ RestImage /\ RestStruct /\ RestOcr /\ RestClf /\ RestPre /\ RestSeg /\ RestUpload /\ RestRate
SpecReg == InitSpecReg /\ [][NextReg]_vars

InitSpecSeg == InitSeg /\ RestClean /\ RestNer /\ RestLink /\ RestPipe /\ RestImage /\ RestStruct /\ RestOcr /\ RestClf /\ RestPre /\ RestReg /\ RestUpload /\ RestRate
SpecSeg == InitSpecSeg /\ [][NextSeg]_vars

InitSpecUpload == InitUpload /\ RestClean /\ RestNer /\ RestLink /\ RestPipe /\ RestImage /\ RestStruct /\ RestOcr /\ RestClf /\ RestPre /\ RestReg /\ RestSeg /\ RestRate
SpecUpload == InitSpecUpload /\ [][NextUpload]_vars

InitSpecRate == InitRate /\ RestClean /\ RestNer /\ RestLink /\ RestPipe /\ RestImage /\ RestStruct /\ RestOcr /\ RestClf /\ RestPre /\ RestReg /\ RestSeg /\ RestUpload
SpecRate == InitSpecRate /\ [][NextRate]_vars

InitSpecOcr == InitOcr /\ RestClean /\ RestNer /\ RestLink /\ RestPipe /\ RestImage /\ RestStruct /\ RestClf /\ RestPre /\ RestReg /\ RestSeg /\ RestUpload /\ RestRate
SpecOcr == InitSpecOcr /\ [][NextOcr]_vars

(***************************************************************************)
(* Entity extraction: properties                                           *)
(***************************************************************************)
\* the raw candidates of the run: the tagger's entities, then the regex ones
RawCandidates == n_spacy \o n_regex

\* C3: merge law.  Any two raw candidates whose start offsets differ by
\* fewer than 3 and whose end offsets differ by fewer than 3 leave exactly
\* one entity in the merged output, and it is the candidate with the higher
\* confidence (either one when the confidences are equal).  Stated for a
\* pair no third candidate is a duplicate of.
C3_MergeLaw ==
    n_pc = "merged" =>
        \A i, j \in 1..Len(RawCandidates) :
            LET a == RawCandidates[i]
                b == RawCandidates[j]
                kept == {k \in 1..Len(n_merged) :
                            IsDuplicate(n_merged[k], a) \/ IsDuplicate(n_merged[k], b)}
                alone == \A m \in 1..Len(RawCandidates) :
                            (IsDuplicate(RawCandidates[m], a)
                                \/ IsDuplicate(RawCandidates[m], b)) => m \in {i, j}
            IN  (i < j /\ IsDuplicate(a, b) /\ alone) =>
                    /\ Cardinality(kept) = 1
                    /\ \A k \in kept :
                          \/ n_merged[k] = a /\ a.confidence >= b.confidence
                          \/ n_merged[k] = b /\ b.confidence >= a.confidence

ValidSpan(e, n) == 0 <= e.start_char /\ e.start_char < e.end_char /\ e.end_char <= n

\* C5: every entity extract_entities returns for a text lies inside it:
\* 0 <= start_char < end_char <= len(text).
C5_EntitySpansInText ==
    n_pc = "merged" => \A k \in 1..Len(n_merged) : ValidSpan(n_merged[k], n_len)

\* a merge that found a duplicate (and overwrote its type) and
\* also appended a regex entity
C5_Witness ==
    /\ n_pc = "merged"
    /\ Len(n_spacy) >= 1 /\ Len(n_regex) >= 2
    /\ Len(n_merged) = Len(n_spacy) + 1
    /\ \E k \in 1..Len(n_merged) : \E i \in 1..Len(n_spacy) :
          /\ n_merged[k].value = n_spacy[i].value
          /\ n_merged[k].entity_type # n_spacy[i].entity_type

\* C28: the value of every entity extract_entities returns is the text from
\* its start_char to its end_char, also for an entity whose type and
\* confidence a merge has overwritten.
C28_ValueIsTextSlice ==
    n_pc = "merged" =>
        \A k \in 1..Len(n_merged) :
            n_merged[k].value = <<n_merged[k].start_char, n_merged[k].end_char>>

\* a tagger entity took the type and confidence of a regex entity of
\* another span, and kept its own value and offsets
C28_Witness ==
    /\ n_pc = "merged"
    /\ \E k \in 1..Len(n_merged) : \E i \in 1..Len(n_spacy) : \E j \in 1..Len(n_regex) :
          /\ n_merged[k].value = n_spacy[i].value
          /\ n_merged[k].value # n_regex[j].value
          /\ n_merged[k].entity_type = n_regex[j].entity_type
          /\ n_merged[k].entity_type # n_spacy[i].entity_type
          /\ n_merged[k].confidence = n_regex[j].confidence
          /\ n_merged[k].start_char = n_spacy[i].start_char
          /\ n_merged[k].end_char = n_spacy[i].end_char

(***************************************************************************)
(* Entity linking: properties                                              *)
(***************************************************************************)
\* C7: link_entities never raises, whatever the entities and the catalogs
\* (records lacking a name, code or generic_name included), and an entity
\* no catalog record matches gets reference null.
C7_LinkNeverRaises ==
    /\ l_pc # "raised"
    /\ l_pc = "returned" =>
          \A i \in 1..Len(l_linked) :
              LinkOne(Indexes(l_cie10, l_meds, l_labs),
                      [l_entities[i] EXCEPT !.normalized_value = NoText]).link_data
                  = l_linked[i]

\* the record found for value in the index d by an exact lookup of the key
\* (the stripped, lowercased value, or the value as written), then, when
\* fallback is set, the first key of d that contains the key or is contained
\* in it (among the keys starting with a lowercase letter when names_only)
ReferenceBy(d, value, lowered, fallback, names_only) ==
    LET key == IF lowered THEN Lower(Strip(value)) ELSE value
        hits == {i \in 1..Len(d) :
                    /\ names_only =>
                           /\ d[i][1] # <<>>
                           /\ IsLetter(d[i][1][1])
                           /\ ~IsUpper(d[i][1][1])
                    /\ Contains(d[i][1], key) \/ Contains(key, d[i][1])}
    IN  IF HasKey(d, key) THEN Lookup(d, key)
        ELSE IF fallback /\ hits # {} THEN d[MinOf(hits)][2]
        ELSE NoRef

C15_LinkedEntityIsNormalized ==
    l_pc = "returned" =>
        \A i \in 1..Len(l_linked) :
            LET t == l_linked[i].entity_type
                ref == l_linked[i].reference
                field == CASE t = "MEDICAMENTO" -> "generic_name"
                           [] t = "DIAGNOSTICO" -> "code"
                           [] t = "CODIGO_CIE10" -> "name"
                           [] t = "SIGNO_VITAL" -> "name"
                           [] OTHER -> None
            IN  (field # None /\ ref # NoRef) =>
                    /\ field \in DOMAIN ref
                    /\ l_entities[i].normalized_value = ref[field]

Count(seq, x) == Cardinality({i \in DOMAIN seq : seq[i] = x})
Invoked(t, method) == Count(p_trace[t], method) > 0

\* C1: a stage that fails never makes process() fail: no call of process()
\* ends with an exception instead of a result.
C1_StageFailureContained ==
    \A t \in Threads : p_pc[t] # "raised"

\* C2: when the text is blank, or nothing is left of it after cleaning,
\* clean() returns an empty cleaned text with no sentences and no tokens,
\* and process() returns at once: warnings exactly
\* ["empty_text_after_cleaning"], classification 'otro' with confidence 0.0,
\* no entities, no linked entities, and neither the classifier, the
\* extractor nor the linker was invoked.
C2_EmptyTextShortCircuits ==
    \A t \in Threads :
        LET f == p_frame[t]
            r == p_result[t]
        IN  (p_pc[t] # "idle" /\ (IsBlankText(f.text) \/ f.cleaned.cleaned = <<>>)) =>
                /\ f.cleaned.cleaned = <<>>
                /\ f.cleaned.sentences = <<>>
                /\ f.cleaned.tokens = <<>>
                /\ p_pc[t] = "returned"
                /\ r.cleaned_text = f.cleaned
                /\ r.warnings = <<<<"empty_text_after_cleaning">>>>
                /\ r.classification.document_type = "otro"
                /\ FracEq(r.classification.confidence, Fraction(0, 1))
                /\ r.extraction.entities = <<>>
                /\ r.linked_entities = <<>>
                /\ p_trace[t] = <<"clean">>

\* a whitespace-only text submitted with a document type has come back
C2_Witness ==
    \E t \in Threads :
        /\ p_pc[t] = "returned"
        /\ Len(p_frame[t].text) > 0
        /\ p_frame[t].doc_type = "receta"
        /\ p_frame[t].cleaned.cleaned = <<>>
        /\ p_result[t].warnings = <<<<"empty_text_after_cleaning">>>>

\* C6: the classification of every returned result has probabilities that
\* sum to 1 and a document_type that is an arg-max of them.
C6_ProbabilitiesSumToOne ==
    \A t \in Threads :
        p_pc[t] = "returned" =>
            LET c == p_result[t].classification
                pr == c.all_probabilities
            IN  /\ SumOver(pr.num, DOMAIN pr.num) = pr.den
                /\ c.document_type \in DOMAIN pr.num
                /\ \A l \in DOMAIN pr.num : pr.num[l] <= pr.num[c.document_type]

\* C9: no step of a process() call changes a field of the shared components.
C9_NoWriteAfterConstruction == [][UNCHANGED vars_shared]_vars

\* what C10 promises of the call of thread t, as far as it has come
DocTypeDecides(t) ==
    LET f == p_frame[t]
        classified == p_pc[t] \in {"extract", "load", "tag", "link"}
    IN  IF DocTypeGiven(f.doc_type)
        THEN /\ ~Invoked(t, "classify")
             /\ classified =>
                   /\ f.classification.document_type = f.doc_type
                   /\ FracEq(f.classification.confidence, Fraction(1, 1))
             /\ p_pc[t] = "link" =>
                   f.extraction.structured_data.extractor = Extractor(f.doc_type)
             /\ p_pc[t] = "returned" =>
                   /\ p_result[t].classification.document_type = f.doc_type
                   /\ FracEq(p_result[t].classification.confidence, Fraction(1, 1))
                   /\ p_result[t].extraction.structured_data.extractor = Extractor(f.doc_type)
        ELSE /\ (classified \/ p_pc[t] = "returned") => Count(p_trace[t], "classify") = 1
             /\ \A i, j \in DOMAIN p_trace[t] :
                   (p_trace[t][i] = "classify" /\ p_trace[t][j] = "extract_structured_data")
                       => i < j

C8_OversizeRejectedEarly ==
    (i_pc # "start" /\ i_size > 10 * 1024 * 1024) =>
        /\ i_pc = "raised"
        /\ i_steps = <<>>
        /\ i_result = None

\* extract_from_image has refused a decodable image one byte over the limit
C8_Witness ==
    /\ i_entry = "extract_from_image"
    /\ i_exists /\ i_suffix_ok /\ i_decodable
    /\ i_size = 10 * 1024 * 1024 + 1
    /\ i_pc = "raised"
    /\ i_error = "ValueError: excede el limite"
    /\ i_steps = <<>>

\* C11: every process() run that is not short-circuited and returns has a
\* low-classification-confidence warning exactly when the classification
\* confidence is below 0.6, and 'no_entities_extracted' exactly when
\* extraction yielded no entity; with either warning the result still
\* carries the cleaned text, the classification, the extraction and one
\* linked entry per entity.
C11_WarningsMatchResult ==
    \A t \in Threads :
        (p_pc[t] = "returned" /\ p_frame[t].cleaned.cleaned # <<>>) =>
            LET r == p_result[t]
                low == {i \in DOMAIN r.warnings :
                           r.warnings[i][1] = "low_classification_confidence"}
                none == {i \in DOMAIN r.warnings :
                            r.warnings[i] = <<"no_entities_extracted">>}
            IN  /\ Cardinality(low) =
                      (IF r.classification.confidence.num * 10
                              < 6 * r.classification.confidence.den THEN 1 ELSE 0)
                /\ Cardinality(none) = (IF r.extraction.entities = <<>> THEN 1 ELSE 0)
                /\ Cardinality(low) + Cardinality(none) = Len(r.warnings)
                /\ r.cleaned_text = p_frame[t].cleaned
                /\ r.classification = p_frame[t].classification
                /\ r.extraction = p_frame[t].extraction
                /\ Len(r.linked_entities) = Len(r.extraction.entities)

\* a run has returned its full result with both warnings
C11_Witness ==
    \E t \in Threads :
        /\ p_pc[t] = "returned"
        /\ p_frame[t].cleaned.cleaned # <<>>
        /\ Len(p_result[t].warnings) = 2
        /\ p_result[t].warnings[1][1] = "low_classification_confidence"
        /\ p_result[t].warnings[2] = <<"no_entities_extracted">>
        /\ p_result[t].classification.model_used = "heuristic"

(***************************************************************************)
(* Structured extraction: properties                                       *)
(***************************************************************************)
\* C12: in a prescription, every populated field dose, presentation,
\* frequency or duration of a medication holds the value of the nearest
\* entity of the field's type that follows the medication, taken among the
\* entities that start within [medication start - 10, medication end + 200].
C12_FieldsHoldNearestFollowing ==
    (s_pc = "returned" /\ s_doc_type = "receta") =>
        LET meds == EntitiesOfType(s_entities, "MEDICAMENTO")
        IN  \A i \in 1..Len(meds) : \A f \in DOMAIN MedFields :
                f \in DOMAIN s_structured.medicamentos[i] =>
                    LET following ==
                            {j \in 1..Len(s_entities) :
                                /\ s_entities[j].entity_type = MedFields[f]
                                /\ s_entities[j].start_char >= meds[i].start_char
                                /\ s_entities[j].start_char >= meds[i].start_char - 10
                                /\ s_entities[j].start_char <= meds[i].end_char + 200}
                    IN  \E j \in following :
                            /\ \A k \in following :
                                   s_entities[j].start_char <= s_entities[k].start_char
                            /\ s_structured.medicamentos[i][f] = s_entities[j].value

\* C13: in a lab report every test-name entity yields one result entry; its
\* 'valor' is the nearest measurement entity that starts at or after the test
\* name and at most 100 characters past its end, its 'rango_referencia' the
\* nearest reference-range entity that starts at or after the test name and
\* at most 150 characters past its end; a field with no such entity is absent.
C13_LabResultsPairNearest ==
    (s_pc = "returned" /\ s_doc_type = "laboratorio") =>
        LET vitals == EntitiesOfType(s_entities, "SIGNO_VITAL")
            Within(v, type, reach) ==
                {j \in 1..Len(s_entities) :
                    /\ s_entities[j].entity_type = type
                    /\ s_entities[j].start_char >= v.start_char
                    /\ s_entities[j].start_char <= v.end_char + reach}
            Pairs(r, key, cands) ==
                /\ (key \in DOMAIN r) = (cands # {})
                /\ cands # {} =>
                       \E j \in cands :
                           /\ \A k \in cands :
                                  s_entities[j].start_char <= s_entities[k].start_char
                           /\ r[key] = s_entities[j].value
        IN  /\ Len(s_structured.resultados) = Len(vitals)
            /\ \A i \in 1..Len(vitals) :
                   LET r == s_structured.resultados[i]
                   IN  /\ r["analisis"] = vitals[i].value
                       /\ Pairs(r, "valor", Within(vitals[i], "VALOR_MEDICION", 100))
                       /\ Pairs(r, "rango_referencia",
                                Within(vitals[i], "RANGO_REFERENCIA", 150))

\* a lab report came back with a result that has its value but no range,
\* the only range of the text standing too far behind the test name
C13_Witness ==
    /\ s_pc = "returned"
    /\ s_doc_type = "laboratorio"
    /\ \E i \in DOMAIN s_structured.resultados :
           LET r == s_structured.resultados[i]
               v == EntitiesOfType(s_entities, "SIGNO_VITAL")[i]
           IN  /\ DOMAIN r = {"analisis", "valor"}
               /\ \E j \in DOMAIN s_entities :
                      /\ s_entities[j].entity_type = "RANGO_REFERENCIA"
                      /\ s_entities[j].start_char > v.end_char + 150

(***************************************************************************)
(* OCR of PDFs and arrays: properties                                      *)
(***************************************************************************)
ScannedReturned == o_pc = "returned" /\ Count(o_steps, "pdf_to_images") = 1

\* C16: a PDF of more than 50 pages that goes down the OCR path has exactly
\* its first 50 pages rasterized and recognized, and the OCRResult returned
\* carries a warning that the pages beyond were dropped.
C16_ExcessPagesDroppedWithWarning ==
    (ScannedReturned /\ Len(o_doc) > 50) =>
        /\ o_frame.page_images = SubSeq(o_doc, 1, 50)
        /\ Count(o_steps, "image_to_string") = 50
        /\ o_result.page_count = 50
        /\ \E i \in DOMAIN o_result.warnings :
               o_result.warnings[i] \notin {"PDF escaneado detectado", "Confianza baja"}

\* C17: every OCR path adds a low-confidence warning when the confidence is
\* below 50 and one more, stronger, when it is below 30, and none at 50 and
\* above; here for the scanned-PDF path and for extract_from_numpy.
C17_LowConfidenceWarnings ==
    (o_pc = "returned" /\ Count(o_steps, "image_to_string") > 0) =>
        LET low == {i \in DOMAIN o_result.warnings :
                       o_result.warnings[i] # "PDF escaneado detectado"}
        IN  Cardinality(low) =
                (IF FracLess(o_result.confidence, Fraction(50, 1)) THEN 1 ELSE 0)
                + (IF FracLess(o_result.confidence, Fraction(30, 1)) THEN 1 ELSE 0)

\* C18: extract_from_pdf takes a PDF as native exactly when the text
\* extracted directly, stripped, has more than 50 characters; then neither
\* the rasterizer nor the OCR engine is invoked, the confidence is 99, the
\* one block holds the full text and there is no warning; otherwise every
\* rasterized page goes through OCR.
C18_NativeAboveFiftyCharacters ==
    (o_pc = "returned" /\ o_entry = "extract_from_pdf") =>
        LET texts == StrippedNonEmpty([i \in DOMAIN o_doc |-> o_doc[i].native])
            direct == JoinWith(texts, <<NL, NL>>)
        IN  IF Len(Strip(direct)) > 50
            THEN /\ o_steps = <<"extract_text_native", "get_page_count">>
                 /\ o_result.confidence = Fraction(99, 1)
                 /\ o_result.text = direct
                 /\ Len(o_result.blocks) = 1
                 /\ o_result.blocks[1].text = direct
                 /\ o_result.warnings = <<>>
                 /\ o_result.page_count = Len(o_doc)
            ELSE /\ Count(o_steps, "pdf_to_images") = 1
                 /\ Count(o_steps, "image_to_string")
                        = (IF Len(o_doc) > 50 THEN 50 ELSE Len(o_doc))

\* a PDF whose embedded text has 51 characters came back as native
C18_Witness ==
    /\ o_pc = "returned"
    /\ o_entry = "extract_from_pdf"
    /\ Count(o_steps, "get_page_count") = 1
    /\ Len(o_result.text) = 51

RECURSIVE SumPageConfidence(_, _, _)
\* the sum of the page confidences of those of the pages lo..hi of doc that
\* have text
SumPageConfidence(doc, lo, hi) ==
    IF lo > hi THEN Fraction(0, 1)
    ELSE IF lo = hi
         THEN (IF Strip(doc[lo].text) = <<>> THEN Fraction(0, 1)
               ELSE BuildBlocksFromData(doc[lo].data, lo - 1).confidence)
    ELSE LET mid == (lo + hi) \div 2
         IN  FracAdd(SumPageConfidence(doc, lo, mid), SumPageConfidence(doc, mid + 1, hi))

\* C19: for a PDF on the OCR path the overall confidence is the sum of the
\* page confidences of the pages whose recognized text is not empty, divided
\* by the number of such pages, and 0 when there is none; a page whose text
\* is empty gives no text, no block and no confidence; the combined text
\* joins the non-empty page texts in page order.
C19_AverageOverPagesWithText ==
    ScannedReturned =>
        LET n == IF Len(o_doc) > 50 THEN 50 ELSE Len(o_doc)
            with_text == {i \in 1..n : Strip(o_doc[i].text) # <<>>}
            total == SumPageConfidence(o_doc, 1, n)
        IN  /\ IF with_text = {} THEN o_result.confidence.num = 0
               ELSE FracEq(o_result.confidence,
                           Fraction(total.num, total.den * Cardinality(with_text)))
            /\ o_result.text
                   = JoinWith(StrippedNonEmpty([i \in 1..n |-> o_doc[i].text]), <<NL, NL>>)
            /\ \A b \in DOMAIN o_result.blocks :
                   o_result.blocks[b].page + 1 \in with_text
            /\ \A i \in with_text :
                   Cardinality({b \in DOMAIN o_result.blocks :
                                    o_result.blocks[b].page = i - 1})
                       = Len(BuildBlocksFromData(o_doc[i].data, i - 1).blocks)

\* a two-page scan came back whose first page had no text though words were
\* read on it: the confidence is that of the second page alone
C19_Witness ==
    /\ ScannedReturned
    /\ Len(o_doc) = 2
    /\ Strip(o_doc[1].text) = <<>>
    /\ o_doc[1].data # <<>>
    /\ Strip(o_doc[2].text) # <<>>
    /\ o_result.confidence = Fraction(40, 1)

RECURSIVE SumConfAt(_, _)
SumConfAt(data, S) ==
    IF S = {} THEN 0 ELSE data[MinOf(S)].conf + SumConfAt(data, S \ {MinOf(S)})

\* C20: block building keeps exactly the words whose confidence is not the
\* sentinel -1 and whose text is not blank; there is one block per distinct
\* block number among them, its confidence the mean of its words'
\* confidences, its box the union of their boxes with width and height not
\* negative; the page confidence is the mean over all kept words, and with
\* no kept word it is 0 and there is no block.
C20_BlocksFromKeptWords ==
    (o_pc = "returned" /\ o_entry = "extract_from_numpy") =>
        LET data == o_doc[1].data
            kept == {i \in DOMAIN data : data[i].conf # -1 /\ Strip(data[i].text) # <<>>}
            order == Sorted({data[i].block_num : i \in kept})
            blocks == o_result.blocks
        IN  /\ Len(blocks) = Len(order)
            /\ \A k \in DOMAIN blocks :
                   LET of == {i \in kept : data[i].block_num = order[k]}
                       x0 == MinOf({data[i].left : i \in of})
                       y0 == MinOf({data[i].top : i \in of})
                       x1 == MaxOf({data[i].left + data[i].width : i \in of})
                       y1 == MaxOf({data[i].top + data[i].height : i \in of})
                   IN  /\ blocks[k].confidence.num * Cardinality(of)
                              = SumConfAt(data, of) * blocks[k].confidence.den
                       /\ blocks[k].bbox = <<x0, y0, x1 - x0, y1 - y0>>
                       /\ blocks[k].bbox[3] >= 0 /\ blocks[k].bbox[4] >= 0
            /\ IF kept = {} THEN o_result.confidence.num = 0 /\ blocks = <<>>
               ELSE o_result.confidence.num * Cardinality(kept)
                        = SumConfAt(data, kept) * o_result.confidence.den

\* block building was given three words of which one had the sentinel
\* confidence and two, of different blocks, were kept
C20_Witness ==
    /\ o_pc = "returned"
    /\ o_entry = "extract_from_numpy"
    /\ Len(o_doc[1].data) = 3
    /\ \E i \in DOMAIN o_doc[1].data : o_doc[1].data[i].conf = -1
    /\ Len(o_result.blocks) = 2
    /\ o_result.confidence = Fraction(160, 2)

(***************************************************************************)
(* DocumentClassifier: the keyword heuristic and the fine-tuned model      *)
(***************************************************************************)
\* the last classify call was answered by the keyword heuristic
HeuristicAnswered == k_text # NoClfText /\ k_result.model_used = "heuristic"

\* C21: the heuristic answers a non-blank text without any keyword by
\* 'otro' with confidence 0.5 and probability 1/6 for each of the six labels,
\* and a text with a positive total score by a label of greatest score, with
\* confidence min(score / total, 0.95).
C21_HeuristicZeroAndArgMax ==
    HeuristicAnswered =>
        LET kws == k_text.kws
            r == k_result
            total == SumOver([l \in Labels |-> Score(l, kws)], Labels)
            best == Score(r.document_type, kws)
        IN  /\ ~k_text.blank
            /\ DOMAIN r.all_probabilities.num = Labels
            /\ IF total = 0
               THEN /\ r.document_type = "otro"
                    /\ FracEq(r.confidence, Fraction(1, 2))
                    /\ \A l \in Labels :
                          FracEq(Fraction(r.all_probabilities.num[l], r.all_probabilities.den),
                                 Fraction(1, 6))
               ELSE /\ \A l \in Labels : Score(l, kws) <= best
                    /\ IF best * 100 > 95 * total
                       THEN FracEq(r.confidence, Fraction(95, 100))
                       ELSE FracEq(r.confidence, Fraction(best, total))

\* a text whose only keyword is "rx:" got receta, capped at 0.95
C21_Witness ==
    /\ HeuristicAnswered
    /\ k_text.kws = {"rx:"}
    /\ k_result.document_type = "receta"
    /\ FracEq(k_result.confidence, Fraction(95, 100))

\* C22: a classifier constructed with a model path that exists answers
\* every non-blank text with its fine-tuned model, never with the heuristic,
\* on the first classify call as on later ones.
C22_FineTunedModelUsed ==
    (k_model_path # None /\ k_path_exists /\ k_text # NoClfText /\ ~k_text.blank) =>
        k_result.model_used # "heuristic"

(***************************************************************************)
(* ImagePreprocessor                                                       *)
(***************************************************************************)
\* the angle of the line is below 15 degrees in magnitude (tan 15 = 0.26794...)
AngleBelowThreshold(line) ==
    DX(line) > 0 /\ Abs(DY(line)) * 100000 < 26795 * DX(line)

\* the median angle is above 0.5 degrees in magnitude
ExceedsHalfDegree(median) ==
    IF median.half THEN Abs(median.num) * 100000 >= 1746 * median.den
    ELSE Abs(median.num) * 100000 >= 873 * median.den

\* C23: deskew returns its input unchanged when no line has an angle below
\* the threshold of 15 degrees in magnitude, or when the median angle of those
\* lines does not exceed 0.5 degrees in magnitude; it rotates, by the median,
\* only when the median exceeds 0.5 degrees; the output always has the
\* dimensions of the input.
C23_DeskewRotatesAboveHalfDegree ==
    q_op = "deskew" =>
        /\ q_out.error = None
        /\ q_out.image = q_image
        /\ IF \A i \in DOMAIN q_lines : ~AngleBelowThreshold(q_lines[i])
           THEN q_out.same
           ELSE LET median == Median(CandidateAngles(q_lines))
                IN  IF ExceedsHalfDegree(median)
                    THEN ~q_out.same /\ q_out.angle = median
                    ELSE q_out.same /\ q_out.angle = NoAngle

\* two lines of 0 and 1.72 degrees and a steep one: rotated by their mean
C23_Witness ==
    /\ q_op = "deskew"
    /\ q_lines = <<<<0, 10, 200, 10>>, <<0, 0, 100, 27>>, <<0, 10, 100, 13>>>>
    /\ ~q_out.same
    /\ q_out.angle = [half |-> TRUE, num |-> 600, den |-> 20000]
    /\ q_out.image = Image(200, 100)

\* C26: _order_points returns, for any four corner points, those same four
\* points, each exactly once, ordered top-left (least x + y), top-right
\* (least y - x), bottom-right (greatest x + y), bottom-left (greatest y - x).
C26_OrderPointsIsPermutation ==
    q_op = "_order_points" =>
        LET out == q_out.points
        IN  /\ Len(out) = 4
            /\ \A i \in 1..4 : Count(out, q_points[i]) = 1
            /\ \A i \in 1..4 :
                  /\ out[1][1] + out[1][2] <= q_points[i][1] + q_points[i][2]
                  /\ out[3][1] + out[3][2] >= q_points[i][1] + q_points[i][2]
                  /\ out[2][2] - out[2][1] <= q_points[i][2] - q_points[i][1]
                  /\ out[4][2] - out[4][1] >= q_points[i][2] - q_points[i][1]

\* C27: resize_if_needed returns the image itself when its longest side is
\* at most the maximum; otherwise it returns an image whose longest side is at
\* most the maximum, whose width and height are both at least 1 and equal to
\* the original ones scaled by maximum / longest side and truncated, for every
\* width and height of at least 1.
C27_ResizeWithinBounds ==
    q_op = "resize_if_needed" =>
        LET limit == IF q_max_dim = 0 THEN 3000 ELSE q_max_dim
            longest == IF q_image.width > q_image.height THEN q_image.width ELSE q_image.height
            out == q_out.image
        IN  /\ q_out.error = None
            /\ IF longest <= limit THEN q_out.same /\ out = q_image
               ELSE /\ out.width <= limit /\ out.height <= limit
                    /\ out.width >= 1 /\ out.height >= 1
                    /\ out.width = (q_image.width * limit) \div longest
                    /\ out.height = (q_image.height * limit) \div longest

(***************************************************************************)
(* ModelRegistry                                                           *)
(***************************************************************************)
RECURSIVE VersionNumbers(_, _)
\* the numbers of a version "a.b.c": <<a, b, c>>; number is the one being read
VersionNumbers(v, number) ==
    IF v = <<>> THEN <<number>>
    ELSE IF Head(v) = "." THEN <<number>> \o VersionNumbers(Tail(v), 0)
    ELSE VersionNumbers(Tail(v), 10 * number + CharRank(Head(v)) - 1)

RECURSIVE NumbersLess(_, _)
NumbersLess(a, b) ==
    IF b = <<>> THEN FALSE
    ELSE IF a = <<>> THEN TRUE
    ELSE IF Head(a) = Head(b) THEN NumbersLess(Tail(a), Tail(b))
    ELSE Head(a) < Head(b)

\* the highest of the versions, by their numbers
GreatestByNumber(versions) ==
    CHOOSE v \in versions :
        \A w \in versions : ~NumbersLess(VersionNumbers(v, 0), VersionNumbers(w, 0))

\* C24: get_info(name) and load_model(name) without a version select the
\* highest registered version of the model, whatever versions are registered,
\* and raise KeyError when the model has no registered version.
C24_LatestIsHighestVersion ==
    [][(r_registry' = r_registry /\ r_out'.op \in {"get_info", "load_model"}
            /\ r_out'.version = NoVersion) =>
        LET versions == ListVersions(r_registry, r_out'.name)
        IN  IF versions = {} THEN r_out'.error = "KeyError"
            ELSE r_out'.error = None =>
                    r_out'.key = <<r_out'.name, GreatestByNumber(versions)>>]_vars

(***************************************************************************)
(* TextCleaner.segment_document_sections                                   *)
(***************************************************************************)
RECURSIVE SectionAt(_, _)
\* the section that is current once line i of the lines is scanned
SectionAt(lines, i) ==
    IF DetectSection(lines[i]) # None THEN DetectSection(lines[i])
    ELSE IF i = 1 THEN "encabezado"
    ELSE SectionAt(lines, i - 1)

\* C25: segmentation loses no line: every line of the input that holds
\* anything is in the content returned under the section that was current
\* when the line was scanned, also when that section had been current before
\* and comes back later.
C25_NoLineLost ==
    g_pc = "done" =>
        \A i \in DOMAIN g_lines :
            g_lines[i] # "blank" =>
                /\ SectionAt(g_lines, i) \in DOMAIN g_sections
                /\ Count(g_sections[SectionAt(g_lines, i)], i) = 1

(***************************************************************************)
(* DocumentService.upload_and_process                                      *)
(***************************************************************************)
\* C29: within upload_and_process the processing_status of the document
\* starts as 'processing' and moves only to 'completed' or 'failed'; after
\* 'completed' it never becomes 'failed'; and when the call returns the
\* status is 'completed' or 'failed', not 'processing'.
C29_StatusMovesForward ==
    /\ u_history # <<>> => u_history[1] = "processing"
    /\ \A i \in 2..Len(u_history) : u_history[i] \in {"completed", "failed"}
    /\ \A i \in 1..Len(u_history) : \A j \in (i + 1)..Len(u_history) :
          ~(u_history[i] = "completed" /\ u_history[j] = "failed")
    /\ u_pc = "returned" => u_document.processing_status \in {"completed", "failed"}

\* the results were stored as completed, add_entities failed, and the
\* handler could not write 'failed': the call raised
C29_Witness ==
    /\ u_pc = "raised"
    /\ u_entities > 0 /\ u_stored = 0
    /\ u_history = <<"processing", "completed">>
    /\ u_session = "inactive"

(***************************************************************************)
(* RateLimitMiddleware                                                     *)
(***************************************************************************)
\* the requests of the log, up to the k-th, that were counted for a client:
\* forwarded and not to an exempt path
Counted(client, k) ==
    {m \in 1..k :
        /\ t_log[m].client = client
        /\ t_log[m].status = 200
        /\ t_log[m].path \notin {"/health", "/docs", "/redoc", "/openapi.json"}}

\* C30: per client, no window shorter than window_seconds holds more than
\* max_requests forwarded requests to non-exempt paths; a request is rejected
\* only when max_requests requests of the same client were forwarded within
\* the window before it, so rejected requests, other clients and exempt paths
\* count for nothing; requests to exempt paths are always forwarded; and only
\* forwarded non-exempt requests of a client are recorded for it.
C30_AtMostMaxPerWindow ==
    /\ \A client \in Clients : \A i \in Counted(client, Len(t_log)) :
          Cardinality({m \in Counted(client, Len(t_log)) :
                          m >= i /\ t_log[m].time - t_log[i].time < RateWindow})
              <= RateMaxRequests
    /\ \A k \in 1..Len(t_log) :
          /\ t_log[k].path \in {"/health", "/docs", "/redoc", "/openapi.json"} =>
                t_log[k].status = 200
          /\ t_log[k].status = 429 =>
                Cardinality({m \in Counted(t_log[k].client, k - 1) :
                                t_log[k].time - t_log[m].time < RateWindow})
                    >= RateMaxRequests
    /\ \A client \in Clients : \A time \in 0..MaxClock :
          Count(t_requests[client], time)
              <= Cardinality({m \in Counted(client, Len(t_log)) : t_log[m].time = time})

\* a client was rejected at its third request and forwarded again once the
\* window had passed, with a rejected request in between
C30_Witness ==
    /\ Len(t_log) = 4
    /\ \A k \in 1..4 : t_log[k].client = "10.0.0.1" /\ t_log[k].path = "/api/v1/upload"
    /\ t_log[1].status = 200 /\ t_log[2].status = 200
    /\ t_log[3].status = 429
    /\ t_log[4].status = 200
    /\ t_log[4].time - t_log[3].time < RateWindow

=============================================================================
